---- MODULE Spec2Model ----
(***************************************************************************)
(* The agent orchestration runtime of llm_repo_agent: the driver loop     *)
(* RepoAgent.run, the ActionController, History and its projections, and  *)
(* the trace the run writes.  The language model, the tool collaborator   *)
(* and the test command are the environment: their answers are drawn from *)
(* small sets.                                                            *)
(***************************************************************************)
EXTENDS Integers, Sequences, FiniteSets, TLC

VARIABLES
  cfg,                  \* AgentConfig + test_cmd + adapter capabilities of this run
  pc,                   \* position of the driver (or "ctl" for the controller harness)
  t,                    \* loop variable of RepoAgent.run
  history,              \* History.events
  trace,                \* the lines of the trace file, in order
  calls,                \* number of llm.next_action calls made
  dispatches,           \* number of ActionController.execute calls made
  invocations,          \* number of calls that reached a RepoTools method
  responses,            \* the kinds of the model responses received so far
  last_trailing,        \* llm._last_trailing is non-empty leftover text
  last_call,            \* the call made last on an object exercised on its own
  runner,               \* an EvalRunner: llm_factory, results, lock, worker threads
  chat,                 \* a ChatCompletionsLLM: _messages, _pending_driver_notes, ...
  parsed_action,        \* the action being routed in this turn
  loop_triggered,       \* local of run
  tests_run_for_final,  \* local of run
  obs_event,            \* local of run: the observation of this turn's dispatch
  test_res,             \* local of run: the on_write test result of this turn
  result,               \* the value run returned
  error                 \* the exception that left run

vars == <<cfg, pc, t, history, trace, calls, dispatches, invocations, responses,
          last_trailing, last_call, runner, chat, parsed_action,
          loop_triggered, tests_run_for_final, obs_event, test_res, result, error>>

\* ------------------------------------------------------------------ bounds
MaxIters == 5
MaxTripwire == 3
MaxDispatch == 2
MaxHistLen == 4
MaxCap == 2
MaxAppends == 4
MaxItems == 3
MaxChatCalls == 5
MaxWorkers == 2

None == "None"
\* None where the value would otherwise be a record
NoneRec == [none |-> TRUE]
RunId == "r1"

Range(s) == {s[i] : i \in 1..Len(s)}

\* ------------------------------------------------------------ tool schema
TOOL_NAMES == {"list_files", "read_file", "write_file", "grep"}

TOOL_ARG_NAMES(name) ==
  CASE name = "list_files" -> <<"rel_dir", "max_files">>
    [] name = "read_file"  -> <<"rel_path", "max_chars">>
    [] name = "write_file" -> <<"rel_path", "content">>
    [] name = "grep"       -> <<"pattern", "rel_dir", "max_hits">>
    [] OTHER               -> <<>>

\* every ToolArg keeps the default required=True
TOOL_REQUIRED_ARGS(name) ==
  IF name \in TOOL_NAMES THEN TOOL_ARG_NAMES(name) ELSE <<>>

\* ---------------------------------------------------------------- actions
ToolCallAction(name, args) ==
  [type |-> "tool_call", name |-> name, args |-> args, thought |-> None]

FinalAction(summary, changes) ==
  [type |-> "final", summary |-> summary, changes |-> changes, thought |-> None]

\* a to_dict that leaves the thought out
to_dict_without_thought(a) ==
  IF a.type = "tool_call"
  THEN [type |-> "tool_call", name |-> a.name, args |-> a.args]
  ELSE [type |-> "final", summary |-> a.summary, changes |-> a.changes]

\* a dict: a function from its keys
to_dict(a) ==
  LET base == IF a.type = "tool_call"
              THEN [type |-> "tool_call", name |-> a.name, args |-> a.args]
              ELSE [type |-> "final", summary |-> a.summary, changes |-> a.changes]
  IN IF a.thought # None THEN base @@ [thought |-> a.thought] ELSE base

\* ---------------------------------------------------------------- history
ToolCallEvent(name, args) == [kind |-> "tool_call", name |-> name, args |-> args]

ObservationEvent(tool, observation) ==
  [kind |-> "observation", tool |-> tool, observation |-> observation]

LLMActionEvent(obj) == [kind |-> "llm_action", obj |-> obj]

DriverNoteEvent(note) == [kind |-> "driver_note", note |-> note]

ReflectionEvent(notes, next_focus, risks) ==
  [kind |-> "reflection", notes |-> notes, next_focus |-> next_focus, risks |-> risks]

\* output is a short token sequence, far below the max_chars cut
Observation_from_tool_result(res) ==
  [ok |-> res.ok, output |-> res.output, meta |-> res.meta]

ToolResult(ok, output, meta) == [ok |-> ok, output |-> output, meta |-> meta]

has_any_observation(h) == \E i \in 1..Len(h) : h[i].kind = "observation"

IsToolCallEvent(e) == e.kind = "tool_call"

\* a detect_loop that looks at every tool call instead of the last k
detect_loop_whole_list(h, k) ==
  LET tool_calls == SelectSeq(h, IsToolCallEvent)
  IN IF Len(tool_calls) < k THEN FALSE
     ELSE Cardinality({tool_calls[i].name : i \in 1..Len(tool_calls)}) = 1

detect_loop(h, k) ==
  LET tool_calls == SelectSeq(h, IsToolCallEvent)
      n == Len(tool_calls)
      \* tool_calls[-k:] : the last k, and the whole list when k = 0 or k > n
      first == IF k > 0 THEN (IF n - k + 1 > 1 THEN n - k + 1 ELSE 1)
               ELSE (IF -k + 1 > n + 1 THEN n + 1 ELSE -k + 1)
      last == SubSeq(tool_calls, first, n)
  IN IF n < k THEN FALSE
     ELSE Cardinality({last[i].name : i \in 1..Len(last)}) = 1

RECURSIVE touched_from(_, _)
touched_from(h, seen) ==
  IF h = <<>> THEN <<>>
  ELSE LET e == Head(h)
           rel == IF e.kind = "observation" /\ e.tool = "write_file"
                  THEN e.observation.meta.rel_path ELSE None
       IN IF rel # None /\ rel \notin seen
          THEN <<rel>> \o touched_from(Tail(h), seen \cup {rel})
          ELSE touched_from(Tail(h), seen)

touched_files(h) == touched_from(h, {})

\* ---------------------------------------------------------------- summary
\* a summarize_history that reads the typed events instead of raising on them
summarize_history_typed(h) ==
  LET IsNote(e) == e.kind = "driver_note"
      IsTest(e) == e.kind = "observation" /\ e.tool = "driver.run_tests"
      ns == SelectSeq(h, IsNote)
      ts == SelectSeq(h, IsTest)
  IN [raised |-> FALSE,
      notes |-> [i \in 1..Len(ns) |-> ns[i].note],
      files_touched |-> touched_files(h),
      last_test |-> IF ts = <<>> THEN NoneRec
                    ELSE [ok |-> ts[Len(ts)].observation.ok,
                          output |-> ts[Len(ts)].observation.output]]

\* The loop body calls e.get("kind") on each event; History holds event
\* objects, which have no get, so the first event raises AttributeError.
summarize_history(h) ==
  IF h # <<>>
  THEN [raised |-> TRUE, notes |-> <<>>, files_touched |-> <<>>, last_test |-> NoneRec]
  ELSE [raised |-> FALSE, notes |-> <<>>, files_touched |-> touched_files(h),
        last_test |-> NoneRec]

\* ------------------------------------------------------------------ trace
TraceEntry(kind, payload) == [kind |-> kind, payload |-> payload, run_id |-> RunId]

log(tr, kind, payload) == Append(tr, TraceEntry(kind, payload))

CountKind(tr, kind) == LET Is(e) == e.kind = kind IN Len(SelectSeq(tr, Is))

\* ------------------------------------------------------------- controller
Paths == {"a.py", "b.py", "../x"}

\* RepoTools._safe_path raises ValueError for a path outside repo_root
Escapes(rel) == rel = "../x"

Args(keys, rel_path) == [keys |-> keys, rel_path |-> rel_path]

KeyLists(name) ==
  IF name \in TOOL_NAMES
  THEN {TOOL_ARG_NAMES(name), <<TOOL_ARG_NAMES(name)[1]>>,
        TOOL_ARG_NAMES(name) \o <<"bogus">>, <<"bogus">>, <<>>}
  ELSE {<<>>, <<"bogus">>}

ArgChoices(name) ==
  {a \in {Args(ks, p) : ks \in KeyLists(name), p \in Paths \cup {None}} :
     (a.rel_path # None) <=> ("rel_path" \in Range(a.keys))}

ToolNameChoices == TOOL_NAMES \cup {"run_tests", "frobnicate"}

missing_args(name, args) ==
  LET NotGiven(k) == k \notin Range(args.keys)
  IN SelectSeq(TOOL_REQUIRED_ARGS(name), NotGiven)

extra_args(name, args) ==
  LET NotAllowed(k) == k \notin Range(TOOL_ARG_NAMES(name))
  IN SelectSeq(args.keys, NotAllowed)

\* a check that looks at the missing keys only
ArgsRejected_missing_only(name, args) ==
  /\ name \in TOOL_NAMES
  /\ missing_args(name, args) # <<>>

ArgsRejected(name, args) ==
  /\ name \in TOOL_NAMES      \* TOOL_ARG_NAMES.get(name) is not None
  /\ (missing_args(name, args) # <<>> \/ extra_args(name, args) # <<>>)

\* execute reaches one of self.tools.list_files / read_file / write_file / grep
invokes_tool(name, args) == name \in TOOL_NAMES /\ ~ArgsRejected(name, args)

\* what the tool collaborator can do with a call that reaches it
ToolOutcomes(name, args) ==
  IF ArgsRejected(name, args) \/ name \notin TOOL_NAMES THEN {"none"}
  ELSE IF name = "write_file"
       THEN (IF Escapes(args.rel_path) THEN {"ValueError"} ELSE {"ok", "TypeError"})
  ELSE IF name = "read_file"
       THEN (IF Escapes(args.rel_path) THEN {"ValueError"} ELSE {"ok", "fail", "TypeError"})
  ELSE {"ok", "fail", "TypeError", "ValueError"}

\* RepoTools.<name>(**args) when it returns
tool_result(name, args, outcome) ==
  ToolResult(outcome = "ok", <<name, outcome>>,
             [rel_path |-> IF name \in {"write_file", "read_file"}
                           THEN args.rel_path ELSE None])

_record_result(h, tr, name, args, res, tt) ==
  LET observation == Observation_from_tool_result(res)
      ev == ObservationEvent(name, observation)
  IN [history |-> Append(h, ev),
      trace |-> log(tr, "tool_result",
                    [t |-> tt, tool |-> name, args |-> args, obs |-> observation]),
      obs_event |-> ev,
      raised |-> None]

_invalid_args_result(h, tr, name, args, missing, extra, tt) ==
  LET parts == (IF missing # <<>> THEN <<"missing required args:">> \o missing ELSE <<>>)
               \o (IF missing # <<>> /\ extra # <<>> THEN <<";">> ELSE <<>>)
               \o (IF extra # <<>> THEN <<"unexpected args:">> \o extra ELSE <<>>)
      res == ToolResult(FALSE, <<"Invalid tool args:">> \o parts, [rel_path |-> None])
  IN _record_result(h, tr, name, args, res, tt)

Raised(h, tr, exc) == [history |-> h, trace |-> tr, obs_event |-> NoneRec, raised |-> exc]

\* a controller that records the touched path before it calls write_file
execute_notes_before_call(h, tr, name, args, outcome, tt) ==
  IF ArgsRejected(name, args)
  THEN _invalid_args_result(h, tr, name, args, missing_args(name, args),
                            extra_args(name, args), tt)
  ELSE IF name \in TOOL_NAMES
  THEN LET note == <<"touched", args.rel_path>>
           h1 == IF name = "write_file" THEN Append(h, DriverNoteEvent(note)) ELSE h
           tr1 == IF name = "write_file"
                  THEN log(tr, "driver_note", [t |-> tt, note |-> note]) ELSE tr
       IN IF outcome = "TypeError"
          THEN _record_result(h1, tr1, name, args,
                              ToolResult(FALSE, <<"Tool call failed:">>, [rel_path |-> None]), tt)
          ELSE IF outcome = "ValueError" THEN Raised(h1, tr1, "ValueError")
          ELSE _record_result(h1, tr1, name, args, tool_result(name, args, outcome), tt)
  ELSE IF name = "run_tests"
  THEN _record_result(h, tr, name, args,
                      ToolResult(FALSE, <<"run_tests is driver-only">>, [rel_path |-> None]), tt)
  ELSE Raised(h, tr, "ValueError")

execute(h, tr, name, args, outcome, tt) ==
  IF ArgsRejected(name, args)
  THEN _invalid_args_result(h, tr, name, args, missing_args(name, args),
                            extra_args(name, args), tt)
  ELSE IF name \in TOOL_NAMES
  THEN IF outcome = "TypeError"
       THEN _record_result(h, tr, name, args,
                           ToolResult(FALSE, <<"Tool call failed:">>, [rel_path |-> None]), tt)
       ELSE IF outcome = "ValueError" THEN Raised(h, tr, "ValueError")
       ELSE IF name = "write_file"
       THEN LET note == <<"touched", args.rel_path>>
            IN _record_result(Append(h, DriverNoteEvent(note)),
                              log(tr, "driver_note", [t |-> tt, note |-> note]),
                              name, args, tool_result(name, args, outcome), tt)
       ELSE _record_result(h, tr, name, args, tool_result(name, args, outcome), tt)
  ELSE IF name = "run_tests"
  THEN _record_result(h, tr, name, args,
                      ToolResult(FALSE, <<"run_tests is driver-only">>, [rel_path |-> None]), tt)
  ELSE Raised(h, tr, "ValueError")

\* ------------------------------------------------------------- reflection
\* note strings and s.strip().lower() on them
Strs == {"x", " X", "y", "z", " "}

Norm(str) ==
  CASE str = "x" -> "x" [] str = " X" -> "x" [] str = "y" -> "y" [] str = "z" -> "z"
    [] OTHER -> ""

IsReflectionEvent(e) == e.kind = "reflection"

RECURSIVE dedup_items_keeps_seen(_, _)
\* a filter that drops blank items only
dedup_items_keeps_seen(items, seen) ==
  IF items = <<>> THEN [kept |-> <<>>, seen |-> seen]
  ELSE LET norm == Norm(Head(items))
           keep == norm # ""
           rest == dedup_items_keeps_seen(Tail(items), IF keep THEN seen \cup {norm} ELSE seen)
       IN [kept |-> (IF keep THEN <<Head(items)>> ELSE <<>>) \o rest.kept,
           seen |-> rest.seen]

RECURSIVE dedup_items(_, _)
\* keep the items whose normal form is non-empty and unseen, adding each to seen
dedup_items(items, seen) ==
  IF items = <<>> THEN [kept |-> <<>>, seen |-> seen]
  ELSE LET norm == Norm(Head(items))
           keep == norm # "" /\ norm \notin seen
           rest == dedup_items(Tail(items), IF keep THEN seen \cup {norm} ELSE seen)
       IN [kept |-> (IF keep THEN <<Head(items)>> ELSE <<>>) \o rest.kept,
           seen |-> rest.seen]

\* a cap that pops the first events of the list, whatever they are
drop_oldest_events(h, overflow) ==
  IF overflow <= 0 THEN h
  ELSE SubSeq(h, (IF overflow < Len(h) THEN overflow ELSE Len(h)) + 1, Len(h))

RECURSIVE drop_newest_reflections(_, _)
\* a cap that evicts from the wrong end
drop_newest_reflections(h, overflow) ==
  IF overflow <= 0 \/ h = <<>> THEN h
  ELSE LET n == Len(h)
       IN IF IsReflectionEvent(h[n])
          THEN drop_newest_reflections(SubSeq(h, 1, n - 1), overflow - 1)
          ELSE Append(drop_newest_reflections(SubSeq(h, 1, n - 1), overflow), h[n])

RECURSIVE drop_oldest_reflections(_, _)
\* the while loop that pops the first reflection index until no overflow is left
drop_oldest_reflections(h, overflow) ==
  IF overflow <= 0 \/ h = <<>> THEN h
  ELSE IF IsReflectionEvent(Head(h)) THEN drop_oldest_reflections(Tail(h), overflow - 1)
  ELSE <<Head(h)>> \o drop_oldest_reflections(Tail(h), overflow)

append_reflection(h, event, max_reflections, dedup_window) ==
  LET recent == SelectSeq(h, IsReflectionEvent)
      n == Len(recent)
      slice == IF dedup_window > 0
               THEN SubSeq(recent, IF n - dedup_window + 1 > 1 THEN n - dedup_window + 1 ELSE 1, n)
               ELSE recent
      seen0 == UNION {{Norm(slice[i].notes[j]) : j \in 1..Len(slice[i].notes)}
                      \cup {Norm(slice[i].risks[j]) : j \in 1..Len(slice[i].risks)}
                      \cup (IF slice[i].next_focus # None
                            THEN {Norm(slice[i].next_focus)} ELSE {})
                      : i \in 1..Len(slice)}
      dn == dedup_items(event.notes, seen0)
      dr == dedup_items(event.risks, dn.seen)
      \* "if event.next_focus": None and the empty string are skipped
      df == IF event.next_focus \notin {None, ""}
            THEN dedup_items(<<event.next_focus>>, dr.seen)
            ELSE [kept |-> <<>>, seen |-> dr.seen]
      next_focus == IF df.kept = <<>> THEN None ELSE df.kept[1]
      deduped == ReflectionEvent(IF dn.kept # <<>> THEN dn.kept ELSE event.notes,
                                 next_focus, dr.kept)
      h1 == Append(h, deduped)
      count == Len(SelectSeq(h1, IsReflectionEvent))
  IN IF dn.kept = <<>> /\ next_focus = None /\ dr.kept = <<>> THEN h
     ELSE IF max_reflections > 0
     THEN drop_oldest_reflections(h1, count - max_reflections)
     ELSE h1

\* ReflectionConfig as RepoAgent.run builds it
REFLECTION_ENABLE == TRUE
MAX_REFLECTIONS == 5
REFLECTION_DEDUP_WINDOW == 5
REFLECT_ON_SUCCESS == FALSE

ReflectionConfig ==
  [enable |-> REFLECTION_ENABLE, max_reflections |-> MAX_REFLECTIONS,
   reflection_dedup_window |-> REFLECTION_DEDUP_WINDOW,
   reflect_on_success |-> REFLECT_ON_SUCCESS]

\* obs_ok of should_reflect: "True", "False" or None; obs is an
\* ObservationEvent, a dict with "ok", a dict with a nested "observation"
\* dict, or None
obs_ok_of(obs) ==
  LET str(b) == IF b THEN "True" ELSE "False"
  IN IF obs = NoneRec THEN None
     ELSE IF "kind" \in DOMAIN obs THEN str(obs.observation.ok)
     ELSE IF "ok" \in DOMAIN obs THEN str(obs.ok)
     ELSE IF "observation" \in DOMAIN obs THEN str(obs.observation.ok)
     ELSE None

\* a gate that forgets the failed test run
should_reflect_ignores_tests(rcfg, looped, obs, tres) ==
  IF ~rcfg.enable THEN FALSE
  ELSE IF looped THEN TRUE
  ELSE IF obs_ok_of(obs) = "False" THEN TRUE
  ELSE IF rcfg.reflect_on_success /\ obs_ok_of(obs) = "True" THEN TRUE
  ELSE FALSE

should_reflect(rcfg, looped, obs, tres) ==
  IF ~rcfg.enable THEN FALSE
  ELSE IF looped THEN TRUE
  ELSE IF obs_ok_of(obs) = "False" THEN TRUE
  ELSE IF tres # NoneRec /\ tres.ok = FALSE THEN TRUE
  ELSE IF rcfg.reflect_on_success /\ obs_ok_of(obs) = "True" THEN TRUE
  ELSE FALSE

\* what llm.reflect can do
ReflectOutcomes ==
  {[kind |-> "ReflectionParseError"], [kind |-> "Exception"]} \cup
  {[kind |-> "ok", notes |-> ns, next_focus |-> nf, risks |-> rs] :
     ns \in {<<"x">>, <<" X", "y">>}, nf \in {None, "y"}, rs \in {<<>>, <<"x">>}}

\* a failure note that reaches the History only
note_result_history_only(h, tr, note, tt) ==
  [history |-> Append(h, DriverNoteEvent(note)), trace |-> tr, raised |-> None]

note_result(h, tr, note, tt) ==
  [history |-> Append(h, DriverNoteEvent(note)),
   trace |-> log(tr, "driver_note", [t |-> tt, note |-> note]),
   raised |-> None]

run_reflection(h, tr, has_reflect, refl, tt) ==
  IF ~has_reflect
  THEN note_result(h, tr, <<"Reflection skipped: LLM adapter does not implement reflect().">>, tt)
  ELSE IF summarize_history(h).raised
  THEN [history |-> h, trace |-> tr, raised |-> "AttributeError"]
  ELSE LET tr1 == log(tr, "reflection_request", [t |-> tt])
       IN IF refl.kind = "ReflectionParseError"
          THEN note_result(h, tr1, <<"Reflection parse failed:">>, tt)
          ELSE IF refl.kind = "Exception"
          THEN note_result(h, tr1, <<"Reflection failed:">>, tt)
          ELSE [history |-> append_reflection(
                               h, ReflectionEvent(refl.notes, refl.next_focus, refl.risks),
                               MAX_REFLECTIONS, REFLECTION_DEDUP_WINDOW),
                trace |-> log(tr1, "reflection",
                              [t |-> tt,
                               reflection |-> [notes |-> refl.notes,
                                               next_focus |-> refl.next_focus,
                                               risks |-> refl.risks]]),
                raised |-> None]

\* ----------------------------------------------------------------- driver
Policies == {"on_write", "on_final", "never"}

ChangeChoices == {<<>>, <<[path |-> "a.py", description |-> "d"]>>}

ActionChoices ==
  UNION {{ToolCallAction(n, a) : a \in ArgChoices(n)} : n \in ToolNameChoices}
  \cup {FinalAction("Done", ch) : ch \in ChangeChoices}

\* what llm.next_action can do: raise ActionParseError, raise something else
\* (the adapters raise RuntimeError on an empty response), return a value
\* that is not a typed action, return a typed action
Responses ==
  {[kind |-> "ActionParseError"], [kind |-> "Exception"], [kind |-> "untyped"]}
  \cup {[kind |-> "action", action |-> a] : a \in ActionChoices}

ResponseTag(resp) ==
  IF resp.kind # "action" THEN resp.kind
  ELSE IF resp.action.type = "tool_call" THEN "tool_call"
  ELSE IF resp.action.changes = <<>> THEN "final_empty" ELSE "final_changes"

\* a loop that runs one turn too many
in_range_inclusive(tt, max_iters) == tt <= max_iters

\* for t in range(max_iters)
in_range(tt, max_iters) == tt < max_iters

\* tools.run_tests(test_cmd), the tests entry and the driver.run_tests observation
_run_and_record_tests(h, tr, ok) ==
  LET res == ToolResult(ok, IF ok THEN <<"passed">> ELSE <<"failed">>, [rel_path |-> None])
      ev == ObservationEvent("driver.run_tests", Observation_from_tool_result(res))
  IN [history |-> Append(h, ev),
      trace |-> log(tr, "tests", [ok |-> res.ok, output |-> res.output]),
      test_res |-> res,
      test_event |-> ev]

tests_on_final(c, ran) == c.test_policy = "on_final" /\ c.test_cmd /\ ~ran

\* tests after every write_file, whatever the policy
tests_on_write_any_policy(c, a) == a.name = "write_file" /\ c.test_cmd

\* tests after every tool call under on_write, whatever the tool
tests_on_write_any_tool(c, a) == c.test_policy = "on_write" /\ c.test_cmd

tests_on_write(c, a) == c.test_policy = "on_write" /\ a.name = "write_file" /\ c.test_cmd

test_result_of(last_test) ==
  [ok |-> last_test.ok,
   summary |-> IF last_test.ok THEN <<"All tests passed.">> ELSE last_test.output]

SetKey(d, k, v) == [x \in DOMAIN d \cup {k} |-> IF x = k THEN v ELSE d[x]]

ForcedListFiles == ToolCallAction("list_files", Args(<<"rel_dir", "max_files">>, None))

STOP_SUMMARY == "Stopped: max iters reached."

Init ==
  /\ cfg \in [max_iters : 0..MaxIters, test_policy : Policies, test_cmd : BOOLEAN,
              loop_tripwire : 0..MaxTripwire, has_reflect : BOOLEAN]
  /\ pc = "loop"
  /\ t = 0
  /\ history = <<>>
  /\ trace = <<>>
  /\ calls = 0
  /\ dispatches = 0
  /\ invocations = 0
  /\ responses = <<>>
  /\ last_trailing = FALSE
  /\ last_call = NoneRec
  /\ runner = NoneRec
  /\ chat = NoneRec
  /\ parsed_action = NoneRec
  /\ loop_triggered = FALSE
  /\ tests_run_for_final = FALSE
  /\ obs_event = NoneRec
  /\ test_res = NoneRec
  /\ result = NoneRec
  /\ error = None

\* top of a turn: loop tripwire, prompt, run_start, llm_request
TurnStart ==
  /\ pc = "loop"
  /\ in_range(t, cfg.max_iters)
  /\ LET looped == detect_loop(history, cfg.loop_tripwire)
         note == <<"Loop detected: change approach, inspect different evidence, then replan.">>
         h1 == IF looped THEN Append(history, DriverNoteEvent(note)) ELSE history
         tr1 == IF looped THEN log(trace, "driver_note", [t |-> t, note |-> note]) ELSE trace
         summary == summarize_history(h1)
         tr2 == IF t = 0 THEN log(tr1, "run_start", [run_id |-> RunId]) ELSE tr1
     IN /\ history' = h1
        /\ loop_triggered' = looped
        /\ IF summary.raised
           THEN /\ trace' = tr1
                /\ pc' = "ABORTED"
                /\ error' = "AttributeError"
           ELSE /\ trace' = log(tr2, "llm_request", [t |-> t])
                /\ pc' = "request"
                /\ error' = error
  /\ UNCHANGED <<cfg, t, calls, dispatches, invocations, responses, last_trailing, last_call, runner, chat, parsed_action,
                 tests_run_for_final, obs_event, test_res, result>>

TRAILING_NOTE == <<"Model returned extra/trailing JSON; only the first object was used.">>

\* leftover text is logged to the trace only, the History gets no note
report_trailing_trace_only(h, tr, tt) ==
  [history |-> h,
   trace |-> log(log(tr, "llm_trailing_text", [t |-> tt]),
                 "driver_note", [t |-> tt, note |-> TRAILING_NOTE])]

\* "if trailing:": the llm_trailing_text entry and the driver note
report_trailing(h, tr, tt) ==
  [history |-> Append(h, DriverNoteEvent(TRAILING_NOTE)),
   trace |-> log(log(tr, "llm_trailing_text", [t |-> tt]),
                 "driver_note", [t |-> tt, note |-> TRAILING_NOTE])]

\* llm.next_action, the typed-action check, llm_action, trailing text
NextAction(resp, trailing) ==
  /\ pc = "request"
  /\ calls' = calls + 1
  /\ responses' = Append(responses, ResponseTag(resp))
  /\ last_trailing' = IF resp.kind = "action" THEN trailing ELSE last_trailing
  /\ IF resp.kind = "Exception"
     THEN \* only ActionParseError is caught: anything else leaves run as it is
          /\ pc' = "ABORTED"
          /\ error' = "AdapterError"
          /\ UNCHANGED <<history, trace, parsed_action>>
     ELSE IF resp.kind # "action"
     THEN /\ trace' = log(trace, "llm_parse_error", [t |-> t, error |-> resp.kind])
          /\ pc' = "ABORTED"
          /\ error' = "RuntimeError"
          /\ UNCHANGED <<history, parsed_action>>
     ELSE LET a == resp.action
              tr1 == log(trace, "llm_action", [t |-> t, action |-> to_dict(a)])
              h1 == Append(history, LLMActionEvent(to_dict(a)))
              rep == report_trailing(h1, tr1, t)
          IN /\ parsed_action' = a
             /\ history' = IF trailing THEN rep.history ELSE h1
             /\ trace' = IF trailing THEN rep.trace ELSE tr1
             /\ pc' = IF a.type = "final" THEN "final" ELSE "dispatch"
             /\ error' = error
  /\ UNCHANGED <<cfg, t, dispatches, invocations, last_call, runner, chat, loop_triggered,
                 tests_run_for_final, obs_event, test_res, result>>

\* the Final branch of the turn
HandleFinal(test_ok) ==
  /\ pc = "final"
  /\ LET run_tests == tests_on_final(cfg, tests_run_for_final)
         tested == _run_and_record_tests(history, trace, test_ok)
         h1 == IF run_tests THEN tested.history ELSE history
         tr1 == IF run_tests THEN tested.trace ELSE trace
         action == IF ~has_any_observation(h1) THEN ForcedListFiles ELSE parsed_action
         summary == summarize_history(h1)
         obj0 == to_dict(action)
         no_changes == IF "changes" \in DOMAIN obj0 THEN obj0.changes = <<>> ELSE TRUE
         obj1 == IF no_changes /\ summary.files_touched # <<>>
                 THEN SetKey(obj0, "changes",
                             [i \in 1..Len(summary.files_touched) |->
                                [path |-> summary.files_touched[i],
                                 description |-> "Edited file"]])
                 ELSE obj0
         final_obj == IF summary.last_test # NoneRec
                      THEN SetKey(obj1, "test_result", test_result_of(summary.last_test))
                      ELSE obj1
     IN /\ history' = h1
        /\ tests_run_for_final' = (tests_run_for_final \/ run_tests)
        /\ parsed_action' = action
        /\ IF summary.raised
           THEN /\ trace' = tr1
                /\ pc' = "ABORTED"
                /\ error' = "AttributeError"
                /\ result' = result
           ELSE /\ trace' = log(log(tr1, "final", [final |-> final_obj]), "run_end",
                                [run_id |-> RunId,
                                 summary |-> IF "summary" \in DOMAIN final_obj
                                             THEN final_obj.summary ELSE None])
                /\ pc' = "DONE"
                /\ error' = error
                /\ result' = final_obj
  /\ UNCHANGED <<cfg, t, calls, dispatches, invocations, responses, last_trailing, last_call, runner, chat, loop_triggered, obs_event, test_res>>

\* the ToolCall branch: record the call, dispatch through the controller
Dispatch(outcome) ==
  /\ pc = "dispatch"
  /\ LET a == parsed_action
         r == execute(Append(history, ToolCallEvent(a.name, a.args)), trace,
                      a.name, a.args, outcome, t)
     IN /\ history' = r.history
        /\ trace' = r.trace
        /\ dispatches' = dispatches + 1
        /\ invocations' = invocations + (IF invokes_tool(a.name, a.args) THEN 1 ELSE 0)
        /\ IF r.raised # None
           THEN /\ pc' = "ABORTED"
                /\ error' = r.raised
                /\ obs_event' = obs_event
           ELSE /\ pc' = "tests"
                /\ error' = error
                /\ obs_event' = r.obs_event
  /\ UNCHANGED <<cfg, t, calls, responses, last_trailing, last_call, runner, chat, parsed_action, loop_triggered,
                 tests_run_for_final, test_res, result>>

\* tests after a write_file under on_write
RunTestsIfCommanded(test_ok) ==
  /\ pc = "tests"
  /\ LET tested == _run_and_record_tests(history, trace, test_ok)
     IN IF tests_on_write(cfg, parsed_action)
        THEN /\ history' = tested.history
             /\ trace' = tested.trace
             /\ test_res' = tested.test_res
        ELSE /\ test_res' = NoneRec
             /\ UNCHANGED <<history, trace>>
  /\ pc' = "reflect"
  /\ UNCHANGED <<cfg, t, calls, dispatches, invocations, responses, last_trailing, last_call, runner, chat, parsed_action, loop_triggered,
                 tests_run_for_final, obs_event, result, error>>

\* the reflection gate and the end of the turn
ReflectionStep(refl) ==
  /\ pc = "reflect"
  /\ LET r == run_reflection(history, trace, cfg.has_reflect, refl, t)
     IN IF should_reflect(ReflectionConfig, loop_triggered, obs_event, test_res)
        THEN /\ history' = r.history
             /\ trace' = r.trace
             /\ IF r.raised # None
                THEN /\ pc' = "ABORTED" /\ error' = r.raised /\ t' = t
                ELSE /\ pc' = "loop" /\ error' = error /\ t' = t + 1
        ELSE /\ pc' = "loop"
             /\ t' = t + 1
             /\ UNCHANGED <<history, trace, error>>
  /\ UNCHANGED <<cfg, calls, dispatches, invocations, responses, last_trailing, last_call, runner, chat, parsed_action, loop_triggered,
                 tests_run_for_final, obs_event, test_res, result>>

\* after the loop: the stop payload
Exhaust(test_ok) ==
  /\ pc = "loop"
  /\ ~in_range(t, cfg.max_iters)
  /\ LET run_tests == tests_on_final(cfg, tests_run_for_final)
         tested == _run_and_record_tests(history, trace, test_ok)
         h1 == IF run_tests THEN tested.history ELSE history
         tr1 == IF run_tests THEN tested.trace ELSE trace
         stop == [type |-> "final", summary |-> STOP_SUMMARY, changes |-> <<>>]
         summary_state == summarize_history(h1)
         payload == IF summary_state.last_test # NoneRec
                    THEN SetKey(stop, "test_result", test_result_of(summary_state.last_test))
                    ELSE stop
     IN /\ history' = h1
        /\ tests_run_for_final' = (tests_run_for_final \/ run_tests)
        /\ IF summary_state.raised
           THEN /\ trace' = tr1
                /\ pc' = "ABORTED"
                /\ error' = "AttributeError"
                /\ result' = result
           ELSE /\ trace' = log(tr1, "run_end", [run_id |-> RunId, summary |-> STOP_SUMMARY])
                /\ pc' = "EXHAUSTED"
                /\ error' = error
                /\ result' = payload
  /\ UNCHANGED <<cfg, t, calls, dispatches, invocations, responses, last_trailing, last_call, runner, chat, parsed_action, loop_triggered,
                 obs_event, test_res>>

TestOutcomes(will_run) == IF will_run THEN BOOLEAN ELSE {TRUE}

Next ==
  \/ TurnStart
  \/ \E resp \in Responses :
       \E trailing \in (IF resp.kind = "action" THEN BOOLEAN ELSE {FALSE}) :
         NextAction(resp, trailing)
  \/ \E ok \in TestOutcomes(tests_on_final(cfg, tests_run_for_final)) : HandleFinal(ok)
  \/ \E outcome \in (IF pc = "dispatch"
                      THEN ToolOutcomes(parsed_action.name, parsed_action.args)
                      ELSE {}) : Dispatch(outcome)
  \/ \E ok \in TestOutcomes(pc = "tests" /\ tests_on_write(cfg, parsed_action)) :
       RunTestsIfCommanded(ok)
  \/ \E refl \in ReflectOutcomes : ReflectionStep(refl)
  \/ \E ok \in TestOutcomes(tests_on_final(cfg, tests_run_for_final)) : Exhaust(ok)

Spec == Init /\ [][Next]_vars

\* the driver is one thread: a step that can be taken is taken
FairSpec == Spec /\ WF_vars(Next)

\* ------------------------------------------------- the controller on its own
\* ActionController.execute called directly, as tests/test_controller.py does;
\* the caller survives an exception that leaves execute and calls again.
CtlInit ==
  /\ cfg = [max_iters |-> 0, test_policy |-> "never", test_cmd |-> FALSE,
            loop_tripwire |-> MaxTripwire, has_reflect |-> FALSE]
  /\ pc = "ctl"
  /\ t = 0
  /\ history = <<>>
  /\ trace = <<>>
  /\ calls = 0
  /\ dispatches = 0
  /\ invocations = 0
  /\ responses = <<>>
  /\ last_trailing = FALSE
  /\ last_call = NoneRec
  /\ runner = NoneRec
  /\ chat = NoneRec
  /\ parsed_action = NoneRec
  /\ loop_triggered = FALSE
  /\ tests_run_for_final = FALSE
  /\ obs_event = NoneRec
  /\ test_res = NoneRec
  /\ result = NoneRec
  /\ error = None

CtlExecute(name, args, outcome) ==
  /\ pc = "ctl"
  /\ dispatches < MaxDispatch
  /\ LET r == execute(history, trace, name, args, outcome, dispatches)
     IN /\ history' = r.history
        /\ trace' = r.trace
        /\ obs_event' = r.obs_event
        /\ error' = r.raised
  /\ dispatches' = dispatches + 1
  /\ invocations' = invocations + (IF invokes_tool(name, args) THEN 1 ELSE 0)
  /\ parsed_action' = ToolCallAction(name, args)
  /\ UNCHANGED <<cfg, pc, t, calls, responses, last_trailing, last_call, runner, chat, loop_triggered, tests_run_for_final,
                 test_res, result>>

CtlNext ==
  \E name \in ToolNameChoices : \E args \in ArgChoices(name) :
    \E outcome \in ToolOutcomes(name, args) : CtlExecute(name, args, outcome)

CtlSpec == CtlInit /\ [][CtlNext]_vars

\* --------------------------------------- the reflection gate on its own
\* ReflectionController.should_reflect called directly on a controller built
\* with any ReflectionConfig, as tests/test_reflection.py does; cfg is the
\* controller's cfg here.
RcInit ==
  /\ cfg \in [enable : BOOLEAN, reflect_on_success : BOOLEAN,
              max_reflections : {MAX_REFLECTIONS},
              reflection_dedup_window : {REFLECTION_DEDUP_WINDOW}]
  /\ pc = "rc"
  /\ t = 0
  /\ history = <<>>
  /\ trace = <<>>
  /\ calls = 0
  /\ dispatches = 0
  /\ invocations = 0
  /\ responses = <<>>
  /\ last_trailing = FALSE
  /\ last_call = NoneRec
  /\ runner = NoneRec
  /\ chat = NoneRec
  /\ parsed_action = NoneRec
  /\ loop_triggered = FALSE
  /\ tests_run_for_final = FALSE
  /\ obs_event = NoneRec
  /\ test_res = NoneRec
  /\ result = NoneRec
  /\ error = None

RcObservations ==
  {NoneRec}
  \cup {ObservationEvent("read_file", [ok |-> b, output |-> <<>>, meta |-> [rel_path |-> None]])
          : b \in BOOLEAN}
  \cup {[ok |-> b] : b \in BOOLEAN}
  \cup {[observation |-> [ok |-> b]] : b \in BOOLEAN}

RcTestResults ==
  {NoneRec} \cup {ToolResult(b, <<>>, [rel_path |-> None]) : b \in BOOLEAN}

RcShouldReflect(looped, obs, tres) ==
  /\ pc = "rc"
  /\ result = NoneRec
  /\ loop_triggered' = looped
  /\ obs_event' = obs
  /\ test_res' = tres
  /\ result' = [should_reflect |-> should_reflect(cfg, looped, obs, tres)]
  /\ UNCHANGED <<cfg, pc, t, history, trace, calls, dispatches, invocations, responses,
                 last_trailing, last_call, runner, chat, parsed_action, tests_run_for_final, error>>

RcNext ==
  \E looped \in BOOLEAN : \E obs \in RcObservations : \E tres \in RcTestResults :
    RcShouldReflect(looped, obs, tres)

RcSpec == RcInit /\ [][RcNext]_vars

\* ---------------------------------------------------- History on its own
\* A History filled through its append methods, as tests/test_summary_history.py
\* and tests/test_reflection.py do, and asked for detect_loop(k).
HistInit ==
  /\ cfg \in {[max_iters |-> 0, test_policy |-> "never", test_cmd |-> FALSE,
                loop_tripwire |-> k, has_reflect |-> FALSE] : k \in 0..MaxTripwire}
  /\ pc = "hist"
  /\ t = 0
  /\ history = <<>>
  /\ trace = <<>>
  /\ calls = 0
  /\ dispatches = 0
  /\ invocations = 0
  /\ responses = <<>>
  /\ last_trailing = FALSE
  /\ last_call = NoneRec
  /\ runner = NoneRec
  /\ chat = NoneRec
  /\ parsed_action = NoneRec
  /\ loop_triggered = FALSE
  /\ tests_run_for_final = FALSE
  /\ obs_event = NoneRec
  /\ test_res = NoneRec
  /\ result = NoneRec
  /\ error = None

HistToolCalls ==
  {ToolCallEvent("list_files", Args(<<"rel_dir", "max_files">>, None)),
   ToolCallEvent("list_files", Args(<<"rel_dir">>, None)),
   ToolCallEvent("grep", Args(<<"pattern", "rel_dir", "max_hits">>, None))}

HistObservations ==
  {ObservationEvent("write_file",
                    Observation_from_tool_result(
                      tool_result("write_file", Args(<<"rel_path", "content">>, "a.py"), "ok"))),
   ObservationEvent("write_file",
                    Observation_from_tool_result(
                      ToolResult(FALSE, <<"write_file", "fail">>, [rel_path |-> "b.py"]))),
   ObservationEvent("read_file",
                    Observation_from_tool_result(
                      tool_result("read_file", Args(<<"rel_path">>, "c.py"), "ok"))),
   ObservationEvent("driver.run_tests",
                    Observation_from_tool_result(
                      ToolResult(FALSE, <<"failed">>, [rel_path |-> None])))}

HistReflections ==
  {ReflectionEvent(<<"x">>, None, <<>>), ReflectionEvent(<<" X", "y">>, "y", <<"x">>)}

HistUnchanged ==
  UNCHANGED <<cfg, pc, t, trace, calls, dispatches, invocations, responses, last_trailing, last_call, runner, chat,
              parsed_action, tests_run_for_final, obs_event, test_res, result, error>>

append_tool_call(event) ==
  /\ pc = "hist"
  /\ Len(history) < MaxHistLen
  /\ history' = Append(history, event)
  /\ UNCHANGED loop_triggered
  /\ HistUnchanged

append_observation(event) ==
  /\ pc = "hist"
  /\ Len(history) < MaxHistLen
  /\ history' = Append(history, event)
  /\ UNCHANGED loop_triggered
  /\ HistUnchanged

append_llm_action(event) ==
  /\ pc = "hist"
  /\ Len(history) < MaxHistLen
  /\ history' = Append(history, event)
  /\ UNCHANGED loop_triggered
  /\ HistUnchanged

append_driver_note(event) ==
  /\ pc = "hist"
  /\ Len(history) < MaxHistLen
  /\ history' = Append(history, event)
  /\ UNCHANGED loop_triggered
  /\ HistUnchanged

HistAppendReflection(event) ==
  /\ pc = "hist"
  /\ Len(history) < MaxHistLen
  /\ history' = append_reflection(history, event, MAX_REFLECTIONS, REFLECTION_DEDUP_WINDOW)
  /\ UNCHANGED loop_triggered
  /\ HistUnchanged

\* history.detect_loop(self.cfg.loop_tripwire)
HistDetectLoop ==
  /\ pc = "hist"
  /\ loop_triggered' = detect_loop(history, cfg.loop_tripwire)
  /\ UNCHANGED history
  /\ HistUnchanged

HistNext ==
  \/ \E e \in HistToolCalls : append_tool_call(e)
  \/ \E e \in HistObservations : append_observation(e)
  \/ append_llm_action(LLMActionEvent(to_dict(FinalAction("Done", <<>>))))
  \/ append_driver_note(DriverNoteEvent(<<"touched", "a.py">>))
  \/ \E e \in HistReflections : HistAppendReflection(e)
  \/ HistDetectLoop

HistSpec == HistInit /\ [][HistNext]_vars

\* ------------------------------------------------------------------
\* History.append_reflection on its own, with a small cap and window
\* (ReflectionConfig.max_reflections, ReflectionConfig.reflection_dedup_window)
ReflInit ==
  /\ cfg \in [max_reflections : 1..MaxCap, reflection_dedup_window : 0..MaxCap]
  /\ pc = "refl"
  /\ t = 0
  /\ history = <<>>
  /\ trace = <<>>
  /\ calls = 0
  /\ dispatches = 0
  /\ invocations = 0
  /\ responses = <<>>
  /\ last_trailing = FALSE
  /\ last_call = NoneRec
  /\ runner = NoneRec
  /\ chat = NoneRec
  /\ parsed_action = NoneRec
  /\ loop_triggered = FALSE
  /\ tests_run_for_final = FALSE
  /\ obs_event = NoneRec
  /\ test_res = NoneRec
  /\ result = NoneRec
  /\ error = None

\* reflections a caller can pass in
ReflEvents ==
  {ReflectionEvent(<<"x">>, None, <<>>),
   ReflectionEvent(<<" X">>, None, <<>>),
   ReflectionEvent(<<"y">>, None, <<>>),
   ReflectionEvent(<<"z">>, None, <<>>),
   ReflectionEvent(<<"x", "y">>, "y", <<"z">>),
   ReflectionEvent(<<"x">>, "y", <<>>),
   ReflectionEvent(<<"y">>, None, <<"z">>),
   ReflectionEvent(<<" ">>, None, <<>>)}

CallNo == IF last_call = NoneRec THEN 0 ELSE last_call.n

ReflUnchanged ==
  UNCHANGED <<cfg, runner, chat, pc, t, trace, calls, dispatches, invocations, responses, last_trailing,
              parsed_action, loop_triggered, tests_run_for_final, obs_event, test_res,
              result, error>>

\* history.append_reflection(event, max_reflections=..., dedup_window=...)
ReflAppendReflection(event) ==
  /\ pc = "refl"
  /\ CallNo < MaxAppends
  /\ history' = append_reflection(history, event, cfg.max_reflections,
                                  cfg.reflection_dedup_window)
  /\ last_call' = [op |-> "append_reflection", event |-> event, n |-> CallNo + 1]
  /\ ReflUnchanged

\* history.append_driver_note(event) between reflections
ReflAppendDriverNote(event) ==
  /\ pc = "refl"
  /\ CallNo < MaxAppends
  /\ history' = Append(history, event)
  /\ last_call' = [op |-> "append_driver_note", event |-> event, n |-> CallNo + 1]
  /\ ReflUnchanged

\* history.append_tool_call(event)
ReflAppendToolCall(event) ==
  /\ pc = "refl"
  /\ CallNo < MaxAppends
  /\ history' = Append(history, event)
  /\ last_call' = [op |-> "append_tool_call", event |-> event, n |-> CallNo + 1]
  /\ ReflUnchanged

\* history.append_observation(event)
ReflAppendObservation(event) ==
  /\ pc = "refl"
  /\ CallNo < MaxAppends
  /\ history' = Append(history, event)
  /\ last_call' = [op |-> "append_observation", event |-> event, n |-> CallNo + 1]
  /\ ReflUnchanged

\* history.append_llm_action(event)
ReflAppendLLMAction(event) ==
  /\ pc = "refl"
  /\ CallNo < MaxAppends
  /\ history' = Append(history, event)
  /\ last_call' = [op |-> "append_llm_action", event |-> event, n |-> CallNo + 1]
  /\ ReflUnchanged

ReflNext ==
  \/ \E e \in ReflEvents : ReflAppendReflection(e)
  \/ ReflAppendDriverNote(DriverNoteEvent(<<"note">>))
  \/ ReflAppendToolCall(ToolCallEvent("grep", Args(<<"pattern">>, None)))
  \/ ReflAppendObservation(
        ObservationEvent("driver.run_tests",
                         Observation_from_tool_result(
                           ToolResult(FALSE, <<"failed">>, [rel_path |-> None]))))
  \/ ReflAppendLLMAction(LLMActionEvent(to_dict(FinalAction("Done", <<>>))))

ReflSpec == ReflInit /\ [][ReflNext]_vars

\* ------------------------------------------------------------------
\* parse_action on its own. A raw JSON value carries its Python type:
\* a str, an int, None, a dict (a function from its keys) or a list.
JStr(str) == [str |-> str]

JInt(i) == [int |-> i]

JNull == [null |-> TRUE]

JDict(d) == [dict |-> d]

JList(l) == [list |-> l]

IsStr(v) == DOMAIN v = {"str"}

IsDict(v) == DOMAIN v = {"dict"}

IsList(v) == DOMAIN v = {"list"}

\* obj.get(k)
get(obj, k) == IF k \in DOMAIN obj.dict THEN obj.dict[k] ELSE JNull

\* the exceptions parse_action leaves with
ActionParseError(msg) == [raised |-> "ActionParseError", msg |-> msg]

UnhashableType == [raised |-> "TypeError", msg |-> "unhashable type"]

\* the typed value of an optional thought
thought_of(v) == IF v = JNull THEN None ELSE v.str

\* a coercion that does not look for a name
should_coerce_named(obj) ==
  IsStr(get(obj, "type")) /\ get(obj, "type").str \in TOOL_NAMES

\* obj.get("type") in TOOL_NAMES and "name" not in obj
should_coerce(obj) ==
  /\ IsStr(get(obj, "type"))
  /\ get(obj, "type").str \in TOOL_NAMES
  /\ "name" \notin DOMAIN obj.dict

coerce(obj) ==
  JDict([type |-> JStr("tool_call"),
         name |-> obj.dict["type"],
         args |-> IF "args" \in DOMAIN obj.dict THEN obj.dict["args"] ELSE JDict(<<>>),
         thought |-> get(obj, "thought")])

\* the tool_call branch
parse_tool_call(obj) ==
  LET name == get(obj, "name")
      args == get(obj, "args")
      thought0 == get(obj, "thought")
  IN IF ~IsStr(name) THEN ActionParseError("tool_call requires non-empty string name")
     ELSE IF name.str = "" THEN ActionParseError("tool_call requires non-empty string name")
     ELSE IF ~IsDict(args) THEN ActionParseError("tool_call requires args object")
     ELSE LET pop == thought0 = JNull /\ "thought" \in DOMAIN args.dict
              thought == IF pop THEN args.dict["thought"] ELSE thought0
              args_obj == IF pop
                          THEN [k \in DOMAIN args.dict \ {"thought"} |-> args.dict[k]]
                          ELSE args.dict
          IN IF thought # JNull /\ ~IsStr(thought)
             THEN ActionParseError("tool_call thought must be a string if present")
             ELSE [ToolCallAction(name.str, args_obj) EXCEPT !.thought = thought_of(thought)]

change_has_keys(ch) == IsDict(ch) /\ DOMAIN ch.dict = {"path", "description"}

change_has_strings(ch) == IsStr(ch.dict["path"]) /\ IsStr(ch.dict["description"])

\* the final branch
parse_final(obj) ==
  LET summary == get(obj, "summary")
      changes == IF "changes" \in DOMAIN obj.dict THEN obj.dict["changes"] ELSE JList(<<>>)
      thought == get(obj, "thought")
  IN IF ~IsStr(summary) THEN ActionParseError("final requires non-empty summary string")
     ELSE IF summary.str = "" THEN ActionParseError("final requires non-empty summary string")
     ELSE IF ~IsList(changes) THEN ActionParseError("final requires changes array")
     ELSE LET bad == {i \in 1..Len(changes.list) :
                        \/ ~change_has_keys(changes.list[i])
                        \/ ~change_has_strings(changes.list[i])}
              first == CHOOSE i \in bad : \A j \in bad : i <= j
          IN IF bad # {}
             THEN (IF ~change_has_keys(changes.list[first])
                   THEN ActionParseError("each change must be {'path','description'}")
                   ELSE ActionParseError("change path/description must be strings"))
             ELSE IF thought # JNull /\ ~IsStr(thought)
             THEN ActionParseError("final thought must be a string if present")
             ELSE [FinalAction(summary.str, changes.list) EXCEPT !.thought = thought_of(thought)]

parse_action(obj) ==
  IF ~IsDict(obj) THEN ActionParseError("Action must be a JSON object/dict")
  ELSE IF IsDict(get(obj, "type")) \/ IsList(get(obj, "type")) THEN UnhashableType
  ELSE LET o == IF should_coerce(obj) THEN coerce(obj) ELSE obj
           typ == get(o, "type")
       IN IF IsStr(typ) /\ typ = JStr("tool_call") THEN parse_tool_call(o)
          ELSE IF IsStr(typ) /\ typ = JStr("final") THEN parse_final(o)
          ELSE ActionParseError("Unknown action type")

\* a typed action's to_dict() as the raw object parse_action reads
as_object(d) ==
  JDict([k \in DOMAIN d |->
           IF k = "args" THEN JDict(d[k])
           ELSE IF k = "changes" THEN JList(d[k])
           ELSE JStr(d[k])])

IsTypedAction(a) == "type" \in DOMAIN a

\* raw objects an adapter can hand to parse_action
Absent == [absent |-> TRUE]

Object(fields) == JDict([k \in {f \in DOMAIN fields : fields[f] # Absent} |-> fields[k]])

RawTypes ==
  {Absent, JNull, JList(<<JStr("read_file")>>), JStr("tool_call"), JStr("final"),
   JStr("read_file"), JStr("list_files"), JStr("run_tests"), JStr("bogus")}

RawNames == {Absent, JNull, JInt(5), JStr(""), JStr("read_file")}

RawArgs ==
  {Absent, JNull, JList(<<>>), JDict(<<>>),
   JDict([rel_path |-> JStr("a")]),
   JDict([rel_path |-> JStr("a"), thought |-> JStr("in")]),
   JDict([rel_path |-> JStr("a"), thought |-> JNull]),
   JDict([thought |-> JInt(7)])}

RawThoughts == {Absent, JNull, JInt(7), JStr(""), JStr("top")}

RawSummaries == {Absent, JStr(""), JStr("s")}

RawChanges ==
  {Absent, JStr("notalist"), JList(<<>>),
   JList(<<JDict([path |-> JStr("a"), description |-> JStr("d")])>>),
   JList(<<JDict([path |-> JStr("a"), description |-> JStr("d")]),
           JDict([path |-> JStr("b")])>>),
   JList(<<JDict([path |-> JInt(1), description |-> JStr("d")]), JStr("c")>>)}

ParseInputs ==
  {JStr("not a dict"), JNull} \cup
  {Object([type |-> ty, name |-> nm, args |-> ar, thought |-> th]) :
     ty \in RawTypes, nm \in RawNames, ar \in RawArgs, th \in RawThoughts} \cup
  {Object([type |-> JStr("final"), summary |-> su, changes |-> ch, thought |-> th]) :
     su \in RawSummaries, ch \in RawChanges, th \in RawThoughts}

ParseInit ==
  /\ cfg = NoneRec
  /\ pc = "parse"
  /\ t = 0
  /\ history = <<>>
  /\ trace = <<>>
  /\ calls = 0
  /\ dispatches = 0
  /\ invocations = 0
  /\ responses = <<>>
  /\ last_trailing = FALSE
  /\ last_call = NoneRec
  /\ runner = NoneRec
  /\ chat = NoneRec
  /\ parsed_action = NoneRec
  /\ loop_triggered = FALSE
  /\ tests_run_for_final = FALSE
  /\ obs_event = NoneRec
  /\ test_res = NoneRec
  /\ result = NoneRec
  /\ error = None

ParseUnchanged ==
  UNCHANGED <<cfg, runner, chat, t, history, trace, calls, dispatches, invocations, responses,
              last_trailing, loop_triggered, tests_run_for_final, obs_event, test_res, error>>

\* parsed_action = parse_action(obj)
ParseAction(obj) ==
  /\ pc = "parse"
  /\ parsed_action' = parse_action(obj)
  /\ last_call' = [op |-> "parse_action", obj |-> obj, n |-> 1]
  /\ pc' = "parsed"
  /\ UNCHANGED result
  /\ ParseUnchanged

\* parse_action(parsed_action.to_dict())
ParseToDict ==
  /\ pc = "parsed"
  /\ IsTypedAction(parsed_action)
  /\ result' = parse_action(as_object(to_dict(parsed_action)))
  /\ pc' = "reparsed"
  /\ UNCHANGED <<parsed_action, last_call>>
  /\ ParseUnchanged

ParseNext ==
  \/ \E obj \in ParseInputs : ParseAction(obj)
  \/ ParseToDict

ParseSpec == ParseInit /\ [][ParseNext]_vars

\* ------------------------------------------------------------------
\* EvalRunner: run_suite_parallel and run_suite_with_rollouts. A work item is
\* one submitted call (run_task, or run_task_with_seed); the executor starts
\* the items in submission order, at most max_workers at a time, and a
\* thread can be preempted between any two statements. cfg is the runner's
\* EvalConfig together with the arguments of the call.
DefaultFactory == [default |-> TRUE]

\* _create_llm_factory_with_seed(seed)
SeedFactory(seed) == [seed |-> seed]

\* factory(): the LLM, known by the factory that built it
built_by(factory) == [built_by |-> factory]

\* work item i, counted from 1, of run_suite_with_rollouts: task task_idx,
\* rollout rollout_idx, both counted from 0
task_idx_of(c, i) == IF c.mode = "rollouts" THEN (i - 1) \div c.rollouts ELSE i - 1

seed_of(c, i) == c.base_seed + task_idx_of(c, i) * c.rollouts + ((i - 1) % c.rollouts)

\* TaskResult(task_id, run_id): run_id is the number of the work item whose
\* run_task call made it, 0 for run_id="unknown"
TaskResult(task_id, run_id) == [task_id |-> task_id, run_id |-> run_id]

Worker(pcw) ==
  [pc |-> pcw, original_factory |-> NoneRec, llm |-> NoneRec, result |-> NoneRec,
   raised |-> FALSE]

\* self.results starts with one result left by an earlier call
EvalInit ==
  /\ cfg \in [mode : {"rollouts", "parallel"}, tasks : 1..MaxItems, rollouts : 1..MaxItems,
              max_workers : 1..MaxWorkers, base_seed : {0},
              unresolvable : SUBSET (0..(MaxItems - 1))]
  /\ cfg.tasks * cfg.rollouts <= MaxItems
  /\ cfg.mode = "parallel" => cfg.rollouts = 1
  /\ cfg.unresolvable \subseteq 0..(cfg.tasks - 1)
  /\ runner = [llm_factory |-> DefaultFactory,
               results |-> <<TaskResult(-1, 0)>>,
               lock |-> 0,
               items |-> [i \in 1..(cfg.tasks * cfg.rollouts) |-> Worker("new")],
               collected |-> <<>>,
               returned |-> NoneRec]
  /\ chat = NoneRec
  /\ pc = "eval"
  /\ t = 0
  /\ history = <<>>
  /\ trace = <<>>
  /\ calls = 0
  /\ dispatches = 0
  /\ invocations = 0
  /\ responses = <<>>
  /\ last_trailing = FALSE
  /\ last_call = NoneRec
  /\ parsed_action = NoneRec
  /\ loop_triggered = FALSE
  /\ tests_run_for_final = FALSE
  /\ obs_event = NoneRec
  /\ test_res = NoneRec
  /\ result = NoneRec
  /\ error = None

EvalUnchanged ==
  UNCHANGED <<cfg, t, history, trace, calls, dispatches, invocations, responses, last_trailing,
              last_call, chat, parsed_action, loop_triggered, tests_run_for_final, obs_event,
              test_res, result, error>>

Items == DOMAIN runner.items

\* the executor hands the oldest queued item to a free thread
CanStart(i) ==
  /\ runner.items[i].pc = "queued"
  /\ \A j \in Items : j < i => runner.items[j].pc # "queued"
  /\ Cardinality({j \in Items : runner.items[j].pc \notin {"new", "queued", "done"}})
       < cfg.max_workers

SetItem(i, w) == [runner EXCEPT !.items[i] = w]

\* run_suite_parallel: self.results = [] and the submits;
\* run_suite_with_rollouts: the work items and the submits
SubmitAll ==
  /\ pc = "eval"
  /\ runner' = [runner EXCEPT
                  !.results = IF cfg.mode = "parallel" THEN <<>> ELSE @,
                  !.items = [i \in Items |-> Worker("queued")]]
  /\ pc' = "collect"
  /\ EvalUnchanged

\* run_task_with_seed: original_factory = self.llm_factory
SaveFactory(i) ==
  /\ pc = "collect"
  /\ cfg.mode = "rollouts"
  /\ CanStart(i)
  /\ runner' = SetItem(i, [runner.items[i] EXCEPT !.pc = "swap",
                                                  !.original_factory = runner.llm_factory])
  /\ UNCHANGED pc
  /\ EvalUnchanged

\* run_task_with_seed: self.llm_factory = self._create_llm_factory_with_seed(seed)
SwapFactory(i) ==
  /\ pc = "collect"
  /\ runner.items[i].pc = "swap"
  /\ runner' = [SetItem(i, [runner.items[i] EXCEPT !.pc = "build"])
                  EXCEPT !.llm_factory = SeedFactory(seed_of(cfg, i))]
  /\ UNCHANGED pc
  /\ EvalUnchanged

\* run_task up to llm = self.llm_factory(). Path(task.repo).expanduser()
\* .resolve() stands before the try: for a path that does not resolve (a
\* "~user" with no such user, an embedded NUL) the call raises there and
\* nothing below it runs
BuildLLM(i) ==
  /\ pc = "collect"
  /\ IF cfg.mode = "rollouts" THEN runner.items[i].pc = "build" ELSE CanStart(i)
  /\ runner' = IF task_idx_of(cfg, i) \in cfg.unresolvable
                THEN SetItem(i, [runner.items[i] EXCEPT
                                   !.pc = IF cfg.mode = "rollouts" THEN "restore" ELSE "done",
                                   !.raised = TRUE])
                ELSE SetItem(i, [runner.items[i] EXCEPT
                                   !.pc = "run",
                                   !.llm = built_by(runner.llm_factory)])
  /\ UNCHANGED pc
  /\ EvalUnchanged

\* run_task: the agent run and the metrics, an exception included; either
\* way task_result is filled in
RunAgent(i) ==
  /\ pc = "collect"
  /\ runner.items[i].pc = "run"
  /\ runner' = SetItem(i, [runner.items[i] EXCEPT
                             !.pc = "acquire",
                             !.result = TaskResult(task_idx_of(cfg, i), i)])
  /\ UNCHANGED pc
  /\ EvalUnchanged

\* with self._results_lock:
AcquireLock(i) ==
  /\ pc = "collect"
  /\ runner.items[i].pc = "acquire"
  /\ runner.lock = 0
  /\ runner' = [SetItem(i, [runner.items[i] EXCEPT !.pc = "append"]) EXCEPT !.lock = i]
  /\ UNCHANGED pc
  /\ EvalUnchanged

\* self.results.append(task_result)
AppendResult(i) ==
  /\ pc = "collect"
  /\ runner.items[i].pc = "append"
  /\ runner' = [SetItem(i, [runner.items[i] EXCEPT !.pc = "release"])
                  EXCEPT !.results = Append(@, runner.items[i].result)]
  /\ UNCHANGED pc
  /\ EvalUnchanged

\* leaving the with block; run_task returns
ReleaseLock(i) ==
  /\ pc = "collect"
  /\ runner.items[i].pc = "release"
  /\ runner' = [SetItem(i, [runner.items[i] EXCEPT
                              !.pc = IF cfg.mode = "rollouts" THEN "restore" ELSE "done"])
                  EXCEPT !.lock = 0]
  /\ UNCHANGED pc
  /\ EvalUnchanged

\* run_task_with_seed: finally: self.llm_factory = original_factory
RestoreFactory(i) ==
  /\ pc = "collect"
  /\ runner.items[i].pc = "restore"
  /\ runner' = [SetItem(i, [runner.items[i] EXCEPT !.pc = "done"])
                  EXCEPT !.llm_factory = runner.items[i].original_factory]
  /\ UNCHANGED pc
  /\ EvalUnchanged

\* for future in as_completed(futures): one finished future is taken;
\* future.result() is run_task's TaskResult, or the except branch makes one
\* with run_id="unknown"
Collect(i) ==
  /\ pc = "collect"
  /\ runner.items[i].pc = "done"
  /\ i \notin Range(runner.collected)
  /\ runner' = [runner EXCEPT
                  !.collected = Append(@, i),
                  !.items[i].result = IF runner.items[i].raised
                                      THEN TaskResult(task_idx_of(cfg, i), 0)
                                      ELSE @]
  /\ UNCHANGED pc
  /\ EvalUnchanged

\* results in completion order
results_in_completion_order(items, collected) ==
  [k \in 1..Len(collected) |-> items[collected[k]].result]

\* [results_by_idx[i] for i in range(len(suite.tasks)) if i in results_by_idx]
results_in_task_order(items, collected) ==
  LET idxs == Range(collected)
      nth(k) == CHOOSE i \in idxs : Cardinality({j \in idxs : j < i}) = k - 1
  IN [k \in 1..Cardinality(idxs) |-> items[nth(k)].result]

\* the executor is shut down and the call returns
ReturnFromSuite ==
  /\ pc = "collect"
  /\ Range(runner.collected) = Items
  /\ LET ordered == results_in_task_order(runner.items, runner.collected)
     IN runner' = IF cfg.mode = "parallel"
                  THEN [runner EXCEPT !.results = ordered, !.returned = [results |-> ordered]]
                  ELSE [runner EXCEPT !.returned = [rollouts |-> Len(runner.collected)]]
  /\ pc' = "returned"
  /\ EvalUnchanged

EvalNext ==
  \/ SubmitAll
  \/ \E i \in Items : SaveFactory(i)
  \/ \E i \in Items : SwapFactory(i)
  \/ \E i \in Items : BuildLLM(i)
  \/ \E i \in Items : RunAgent(i)
  \/ \E i \in Items : AcquireLock(i)
  \/ \E i \in Items : AppendResult(i)
  \/ \E i \in Items : ReleaseLock(i)
  \/ \E i \in Items : RestoreFactory(i)
  \/ \E i \in Items : Collect(i)
  \/ ReturnFromSuite

EvalSpec == EvalInit /\ [][EvalNext]_vars

\* ------------------------------------------------------------------
\* ChatCompletionsLLM: the conversation kept across calls. chat.sent is the
\* messages argument of the last chat.completions.create call, the empty
\* list before the first one. A tool call id is a number: k for the
\* generated "call_k", 9 for an id the provider gave.
\* {"role": "system", "content": f"DRIVER NOTE:\n{note}"}
DriverNoteMessage(note) ==
  [role |-> "system", content |-> [text |-> "DRIVER NOTE:\n", note |-> note]]

AssistantToolCalls(id) == [role |-> "assistant", tool_calls |-> <<[id |-> id]>>]

ToolMessage(id, content) ==
  [role |-> "tool", tool_call_id |-> id, content |-> [text |-> content]]

\* last.get("role") == "assistant" and last.get("tool_calls")
awaits_tool_result(messages) ==
  /\ messages[Len(messages)].role = "assistant"
  /\ "tool_calls" \in DOMAIN messages[Len(messages)]

start_conversation(l) ==
  [l EXCEPT !.messages = <<[role |-> "system", content |-> [text |-> "sys"]],
                           [role |-> "user", content |-> [text |-> "goal"]]>>,
            !.last_tool_call_id = 0,
            !.tool_call_counter = 0,
            !.pending_driver_notes = <<>>]

\* an add_driver_note that never defers
add_driver_note_at_once(l, note) ==
  IF note = "" \/ l.messages = <<>>
  THEN l
  ELSE [l EXCEPT !.messages = Append(@, DriverNoteMessage(note))]

add_driver_note(l, note) ==
  IF note = "" THEN l
  ELSE IF l.messages = <<>> THEN l
  ELSE IF awaits_tool_result(l.messages)
       THEN [l EXCEPT !.pending_driver_notes = Append(@, note)]
       ELSE [l EXCEPT !.messages = Append(@, DriverNoteMessage(note))]

flush_driver_notes(l) ==
  [l EXCEPT !.messages = @ \o [k \in 1..Len(l.pending_driver_notes) |->
                                 DriverNoteMessage(l.pending_driver_notes[k])],
            !.pending_driver_notes = <<>>]

\* what chat.completions.create answers: a tool call with the provider's id
\* (9) or with none, a final text, or no choices at all
ProviderResponses ==
  {[kind |-> "tool_call", id |-> 9], [kind |-> "tool_call", id |-> 0],
   [kind |-> "final", id |-> 0], [kind |-> "empty", id |-> 0]}

\* next_action is left by a RuntimeError before anything is appended
next_action_refused(l, tool_output) ==
  \/ l.messages = <<>>
  \/ tool_output # None /\ l.last_tool_call_id = 0

\* the object after next_action(tool_result), whether it returned or raised
next_action(l, tool_output, resp) ==
  IF next_action_refused(l, tool_output) THEN l
  ELSE
    LET with_result ==
          IF tool_output # None
          THEN [l EXCEPT !.messages = Append(@, ToolMessage(l.last_tool_call_id, tool_output))]
          ELSE l
        flushed == flush_driver_notes(with_result)
        called == [flushed EXCEPT !.sent = flushed.messages]
    IN CASE resp.kind = "empty" -> called
         [] resp.kind = "tool_call" ->
              LET tc_id == IF resp.id # 0 THEN resp.id ELSE called.tool_call_counter + 1
              IN [called EXCEPT !.tool_call_counter = IF resp.id # 0 THEN @ ELSE @ + 1,
                                !.last_tool_call_id = tc_id,
                                !.messages = Append(@, AssistantToolCalls(tc_id))]
         [] OTHER ->
              [called EXCEPT
                 !.messages = Append(@, [role |-> "assistant", content |-> [text |-> "final"]])]

ChatInit ==
  /\ cfg = [model |-> "gpt-4.1-mini"]
  /\ chat = [messages |-> <<>>, pending_driver_notes |-> <<>>, last_tool_call_id |-> 0,
             tool_call_counter |-> 0, sent |-> <<>>]
  /\ pc = "chat"
  /\ t = 0
  /\ history = <<>>
  /\ trace = <<>>
  /\ calls = 0
  /\ dispatches = 0
  /\ invocations = 0
  /\ responses = <<>>
  /\ last_trailing = FALSE
  /\ last_call = NoneRec
  /\ runner = NoneRec
  /\ parsed_action = NoneRec
  /\ loop_triggered = FALSE
  /\ tests_run_for_final = FALSE
  /\ obs_event = NoneRec
  /\ test_res = NoneRec
  /\ result = NoneRec
  /\ error = None

ChatUnchanged ==
  UNCHANGED <<cfg, pc, t, history, trace, calls, dispatches, invocations, responses,
              last_trailing, runner, parsed_action, loop_triggered, tests_run_for_final,
              obs_event, test_res, result, error>>

ChatStartConversation ==
  /\ pc = "chat"
  /\ CallNo < MaxChatCalls
  /\ chat' = start_conversation(chat)
  /\ last_call' = [op |-> "start_conversation", arg |-> [none |-> TRUE], n |-> CallNo + 1]
  /\ ChatUnchanged

ChatAddDriverNote(note) ==
  /\ pc = "chat"
  /\ CallNo < MaxChatCalls
  /\ chat' = add_driver_note(chat, note)
  /\ last_call' = [op |-> "add_driver_note", arg |-> [note |-> note], n |-> CallNo + 1]
  /\ ChatUnchanged

ChatNextAction(tool_output, resp) ==
  /\ pc = "chat"
  /\ CallNo < MaxChatCalls
  /\ chat' = next_action(chat, tool_output, resp)
  /\ last_call' = [op |-> "next_action",
                   arg |-> [tool_result |-> tool_output, resp |-> resp,
                            raised |-> next_action_refused(chat, tool_output)
                                         \/ resp.kind = "empty"],
                   n |-> CallNo + 1]
  /\ ChatUnchanged

ChatNext ==
  \/ ChatStartConversation
  \/ \E note \in {"", "a", "b"} : ChatAddDriverNote(note)
  \/ \E tool_output \in {None, "file contents"}, resp \in ProviderResponses :
       ChatNextAction(tool_output, resp)

ChatSpec == ChatInit /\ [][ChatNext]_vars

\* ------------------------------------------------------------------ claims
Terminated == pc \in {"DONE", "EXHAUSTED", "ABORTED"}

Returned == pc \in {"DONE", "EXHAUSTED"}

IsFinalTag(tag) == tag \in {"final_empty", "final_changes"}

IsToolObservation(e) == e.kind = "observation" /\ e.tool # "driver.run_tests"

IsTestObservation(e) == e.kind = "observation" /\ e.tool = "driver.run_tests"

IsWriteCall(e) == e.kind = "tool_call" /\ e.name = "write_file"

NumToolObservations == Len(SelectSeq(history, IsToolObservation))

NumTestObservations == Len(SelectSeq(history, IsTestObservation))

HasSuccessfulWrite ==
  \E i \in 1..Len(history) :
    /\ history[i].kind = "observation"
    /\ history[i].tool = "write_file"
    /\ history[i].observation.ok

FinalShaped(d) ==
  /\ {"type", "summary", "changes"} \subseteq DOMAIN d
  /\ d.type = "final"
  /\ "name" \notin DOMAIN d
  /\ "args" \notin DOMAIN d

\* C1: when the model's very first response is a Final, the run has dispatched
\* at least one tool call, and recorded its observation, by the time it ends.
C1_EvidenceGateDispatches ==
  (Terminated /\ responses # <<>> /\ IsFinalTag(responses[1]))
    => (dispatches >= 1 /\ NumToolObservations >= 1)

C3_WriteBeforeFinal ==
  (Terminated /\ responses # <<>> /\ IsFinalTag(responses[Len(responses)]))
    => /\ responses[Len(responses)] = "final_changes" => HasSuccessfulWrite
       /\ (NumToolObservations >= 1
             /\ (responses[Len(responses)] = "final_empty" \/ HasSuccessfulWrite))
            => pc = "DONE"

LLMRequestTurns ==
  {trace[i].payload.t : i \in {j \in 1..Len(trace) : trace[j].kind = "llm_request"}}

\* C4: with max_iters = N only turns 0..N-1 run, the model is asked at most N
\* times and at most once per turn, a stopped run stays stopped in its one
\* terminal state, and every run stops.
C4_BoundedRun ==
  /\ [](/\ t \in 0..cfg.max_iters
        /\ pc \in {"request", "final", "dispatch", "tests", "reflect"} => t < cfg.max_iters
        /\ calls <= cfg.max_iters
        /\ CountKind(trace, "llm_request") \in {calls, calls + 1}
        /\ Cardinality(LLMRequestTurns) = CountKind(trace, "llm_request")
        /\ LLMRequestTurns \subseteq 0..(cfg.max_iters - 1)
        /\ pc = "DONE" => IsFinalTag(responses[Len(responses)]))
  /\ [][Terminated => pc' = pc]_vars
  /\ <>Terminated

C4_Witness == Terminated /\ calls = 1 /\ t = 1 /\ cfg.max_iters > 1

\* C5: when max_iters turns elapse without an accepted Final, run returns the
\* stop payload: the stop summary, changes = [], the last test result if a
\* test ran, one run_end entry and no final entry.
C5_StopPayload ==
  (Terminated /\ t = cfg.max_iters)
    => /\ pc = "EXHAUSTED"
       /\ result.type = "final"
       /\ result.summary = STOP_SUMMARY
       /\ result.changes = <<>>
       /\ ("test_result" \in DOMAIN result) <=> (NumTestObservations > 0)
       /\ CountKind(trace, "run_end") = 1
       /\ CountKind(trace, "final") = 0

\* C6: test_policy never, max_iters 5, a model that always answers Final with
\* non-empty changes: a forced list_files is dispatched in turn 0 and
\* next_action has been called 6 times when the run ends.
C6_ScenarioTwo ==
  (/\ Terminated
   /\ cfg.test_policy = "never"
   /\ cfg.max_iters = 5
   /\ responses # <<>>
   /\ \A i \in 1..Len(responses) : responses[i] = "final_changes")
    => /\ \E i \in 1..Len(trace) :
            /\ trace[i].kind = "tool_result"
            /\ trace[i].payload.t = 0
            /\ trace[i].payload.tool = "list_files"
       /\ calls = 6

\* C7: under on_final with a test command, a run that ends (other than by
\* the adapter's protocol violation or an exception of the tool) has executed
\* the test command exactly once: one tests entry, one driver.run_tests
\* observation.
C7_TestsOncePerRun ==
  (/\ Terminated
   /\ cfg.test_policy = "on_final"
   /\ cfg.test_cmd
   /\ error \notin {"RuntimeError", "AdapterError", "ValueError"})
    => /\ CountKind(trace, "tests") = 1
       /\ NumTestObservations = 1

\* C8: under test_policy never the test command is never executed: no tests
\* entry, no driver.run_tests observation, no test_result in what run returns.
C8_NeverRunsNoTests ==
  cfg.test_policy = "never"
    => /\ CountKind(trace, "tests") = 0
       /\ NumTestObservations = 0
       /\ Returned => "test_result" \notin DOMAIN result

C8_Witness ==
  /\ cfg.test_policy = "never"
  /\ cfg.test_cmd
  /\ pc = "reflect"
  /\ parsed_action.name = "write_file"
  /\ HasSuccessfulWrite

\* C9: under on_write with a test command, every turn whose tool call is
\* write_file has run the tests once by the end of that turn, the
\* driver.run_tests observation directly following the write_file
\* observation, and no other turn runs tests.
C9_TestsOnEveryWrite ==
  (cfg.test_policy = "on_write" /\ cfg.test_cmd /\ pc # "tests")
    => /\ CountKind(trace, "tests") = Len(SelectSeq(history, IsWriteCall))
       /\ NumTestObservations = Len(SelectSeq(history, IsWriteCall))
       /\ \A i \in 1..Len(history) :
            IsTestObservation(history[i])
              => /\ i > 1
                 /\ history[i - 1].kind = "observation"
                 /\ history[i - 1].tool = "write_file"

\* C10: after any sequence of dispatches, the number of calls to execute, of
\* tool observations in History and of tool_result entries are equal.
C10_OneObservationPerDispatch ==
  /\ dispatches = NumToolObservations
  /\ dispatches = CountKind(trace, "tool_result")

\* a tool call the collaborator cannot serve: an unknown tool, or a path
\* outside the repository root
IsUnservableCall(e) ==
  /\ e.kind = "tool_call"
  /\ \/ e.name \notin TOOL_NAMES \cup {"run_tests"}
     \/ (e.args.rel_path # None /\ Escapes(e.args.rel_path))

\* C11: a tool call that names an unknown tool, or whose collaborator raises
\* (a path that escapes the root), is directly followed in History by an
\* ok=false observation of that tool, and no exception of the tool leaves run.
C11_ToolErrorsBecomeObservations ==
  /\ error # "ValueError"
  /\ \A i \in 1..Len(history) :
       IsUnservableCall(history[i])
         => /\ i < Len(history)
            /\ history[i + 1].kind = "observation"
            /\ history[i + 1].tool = history[i].name
            /\ ~history[i + 1].observation.ok

\* the keys a message lists after a label, up to the next ";"
NamedAfter(out, label) ==
  IF label \notin Range(out) THEN {}
  ELSE LET p == CHOOSE i \in 1..Len(out) : out[i] = label
           ends == {i \in (p + 1)..Len(out) : out[i] = ";"}
           q == IF ends = {} THEN Len(out)
                ELSE (CHOOSE i \in ends : \A j \in ends : i <= j) - 1
       IN {out[i] : i \in (p + 1)..q}

MissingKeys(a) == {k \in Range(TOOL_ARG_NAMES(a.name)) : k \notin Range(a.args.keys)}

UnexpectedKeys(a) == {k \in Range(a.args.keys) : k \notin Range(TOOL_ARG_NAMES(a.name))}

SchemaViolation(a) ==
  /\ a # NoneRec
  /\ a.name \in TOOL_NAMES
  /\ (MissingKeys(a) # {} \/ UnexpectedKeys(a) # {})

\* C12: for a schema-bearing tool and args that miss a required key or carry
\* a key outside the allowed set, execute raises nothing and returns an
\* ok=false observation, the last event of History, whose message names
\* exactly the missing and the unexpected keys; the call reaches no RepoTools
\* method and appends nothing but that observation.
C12_SchemaRejection ==
  /\ [](SchemaViolation(parsed_action)
          => /\ error = None
             /\ obs_event # NoneRec
             /\ obs_event.tool = parsed_action.name
             /\ ~obs_event.observation.ok
             /\ history[Len(history)] = obs_event
             /\ trace[Len(trace)].kind = "tool_result"
             /\ trace[Len(trace)].payload.obs = obs_event.observation
             /\ NamedAfter(obs_event.observation.output, "missing required args:")
                  = MissingKeys(parsed_action)
             /\ NamedAfter(obs_event.observation.output, "unexpected args:")
                  = UnexpectedKeys(parsed_action))
  /\ [][SchemaViolation(parsed_action')
          => /\ invocations' = invocations
             /\ Len(history') = Len(history) + 1
             /\ Len(trace') = Len(trace) + 1]_vars

C12_Witness ==
  /\ pc = "ctl"
  /\ SchemaViolation(parsed_action)
  /\ parsed_action.name = "write_file"
  /\ MissingKeys(parsed_action) = {"rel_path", "content"}
  /\ UnexpectedKeys(parsed_action) = {"bogus"}
  /\ ";" \in Range(obs_event.observation.output)
  /\ invocations = 1

\* C13: a tool call named run_tests, whatever its args and the test policy,
\* yields an ok=false observation and executes nothing: by the end of its
\* turn no RepoTools method was reached, the trace holds no tests entry and
\* History no driver.run_tests observation.
C13_RunTestsIsDriverOnly ==
  (pc \in {"tests", "reflect"} /\ parsed_action.name = "run_tests")
    => /\ obs_event.tool = "run_tests"
       /\ ~obs_event.observation.ok
       /\ history[Len(history)] = obs_event
       /\ trace[Len(trace)].kind = "tool_result"
       /\ invocations = 0
       /\ CountKind(trace, "tests") = 0
       /\ NumTestObservations = 0

C13_Witness ==
  /\ pc = "reflect"
  /\ parsed_action.name = "run_tests"
  /\ parsed_action.args.keys = <<"bogus">>
  /\ cfg.test_policy = "on_write"
  /\ cfg.test_cmd

\* C14: when next_action throws, or returns something that is not a typed
\* action, the run is over with a RuntimeError, the llm_parse_error entry is
\* the last entry of the trace and the only one of its kind, that response
\* has no llm_action entry, and next_action was called once per llm_request.
C14_ProtocolViolationLogged ==
  (responses # <<>>
     /\ responses[Len(responses)] \in {"ActionParseError", "Exception", "untyped"})
    => /\ pc = "ABORTED"
       /\ error = "RuntimeError"
       /\ trace[Len(trace)].kind = "llm_parse_error"
       /\ CountKind(trace, "llm_parse_error") = 1
       /\ CountKind(trace, "llm_action") = calls - 1
       /\ CountKind(trace, "llm_request") = calls

IsTrailingNote(e) == e.kind = "driver_note" /\ e.note = TRAILING_NOTE

IsTrailingTraceNote(e) == e.kind = "driver_note" /\ e.payload.note = TRAILING_NOTE

NotProtocolOrToolAbort == error \notin {"RuntimeError", "AdapterError", "ValueError"}

ExpectedChanges(model_changes, touched) ==
  IF model_changes = <<>> /\ touched # <<>>
  THEN [i \in 1..Len(touched) |-> [path |-> touched[i], description |-> "Edited file"]]
  ELSE model_changes

LastTestObservation ==
  LET ts == SelectSeq(history, IsTestObservation) IN ts[Len(ts)].observation

\* C16: a run in which files were touched, and which did not end on a
\* protocol violation or an exception of the tool, returns a payload; when
\* that payload is an accepted Final, its changes is one {path, "Edited
\* file"} per touched file in first-seen order if the Final's changes was
\* empty, and the Final's own changes otherwise.
C16_ChangesFallback ==
  (Terminated /\ touched_files(history) # <<>> /\ NotProtocolOrToolAbort)
    => /\ Returned
       /\ pc = "DONE"
            => result.changes
                 = ExpectedChanges(parsed_action.changes, touched_files(history))

\* C17: a run in which the tests were executed, and which did not end on a
\* protocol violation or an exception of the tool, returns a payload that
\* holds test_result with the ok of the most recent test run; a payload
\* returned by a run without a test run holds no test_result.
C17_TestResultIffTestRan ==
  /\ (Terminated /\ NumTestObservations > 0 /\ NotProtocolOrToolAbort)
       => /\ Returned
          /\ "test_result" \in DOMAIN result
          /\ result.test_result.ok = LastTestObservation.ok
  /\ (Returned /\ NumTestObservations = 0) => "test_result" \notin DOMAIN result

ToolCallNames(h) ==
  LET tc == SelectSeq(h, IsToolCallEvent) IN [i \in 1..Len(tc) |-> tc[i].name]

\* C18: for every History and every k >= 1, detect_loop(k) is false when
\* History holds fewer than k tool calls and otherwise true exactly when the
\* last k tool calls have one name, whatever their args and whatever other
\* events lie between them.
C18_DetectLoop ==
  \A k \in 1..(MaxHistLen + 1) :
    LET names == ToolCallNames(history)
        n == Len(names)
    IN detect_loop(history, k)
         = (n >= k /\ \A i, j \in (n - k + 1)..n : names[i] = names[j])

C18_Witness ==
  /\ pc = "hist"
  /\ Len(history) = 4
  /\ history[1].kind = "tool_call" /\ history[1].name = "grep"
  /\ history[2].kind = "tool_call" /\ history[2].name = "list_files"
  /\ history[3].kind = "observation"
  /\ history[4].kind = "tool_call" /\ history[4].name = "list_files"
  /\ history[4].args # history[2].args
  /\ detect_loop(history, 2)
  /\ ~detect_loop(history, 3)
  /\ cfg.loop_tripwire = 2
  /\ loop_triggered

\* the ok of the observation handed to should_reflect, in any of its shapes
ObsHasOk(b) ==
  /\ obs_event # NoneRec
  /\ \/ "ok" \in DOMAIN obs_event /\ obs_event.ok = b
     \/ "observation" \in DOMAIN obs_event /\ obs_event.observation.ok = b

\* C19: with reflection enabled, should_reflect answers true exactly when a
\* loop was just detected, or the latest tool observation has ok=false, or
\* the test run has ok=false, or reflect_on_success is set and the latest
\* observation has ok=true.
C19_ShouldReflect ==
  (pc = "rc" /\ result # NoneRec /\ cfg.enable)
    => result.should_reflect
         = (\/ loop_triggered
            \/ ObsHasOk(FALSE)
            \/ (test_res # NoneRec /\ ~test_res.ok)
            \/ (cfg.reflect_on_success /\ ObsHasOk(TRUE)))

C19_Witness ==
  /\ pc = "rc"
  /\ cfg.enable
  /\ ~cfg.reflect_on_success
  /\ ~loop_triggered
  /\ ObsHasOk(TRUE)
  /\ test_res # NoneRec
  /\ ~test_res.ok
  /\ result # NoneRec
  /\ result.should_reflect

\* run_reflection recorded a failure: one more driver note, last in History
\* and in the trace, and nothing else appended to History
ReflectionFailureNoted ==
  /\ Len(history') = Len(history) + 1
  /\ SubSeq(history', 1, Len(history)) = history
  /\ history'[Len(history')].kind = "driver_note"
  /\ trace'[Len(trace')].kind = "driver_note"
  /\ trace'[Len(trace')].payload.note = history'[Len(history')].note
  /\ CountKind(trace', "driver_note") = CountKind(trace, "driver_note") + 1

\* C20: a turn whose reflection gate is open ends without an exception and
\* the driver goes on to the next turn: either reflect returned (a reflection
\* entry is logged), or, as always when the adapter has no reflect, exactly
\* one DriverNoteEvent with its driver_note entry is appended and no
\* ReflectionEvent.
C20_ReflectionNonFatal ==
  [][(pc = "reflect"
        /\ should_reflect(ReflectionConfig, loop_triggered, obs_event, test_res))
       => /\ error' = error
          /\ pc' = "loop"
          /\ t' = t + 1
          /\ IF cfg.has_reflect
             THEN trace'[Len(trace')].kind = "reflection" \/ ReflectionFailureNoted
             ELSE ReflectionFailureNoted]_vars

\* ------------------------------------------------------------------
\* reflections kept in a History
Reflections(h) == SelectSeq(h, IsReflectionEvent)

IsOtherEvent(e) == ~IsReflectionEvent(e)

OtherEvents(h) == SelectSeq(h, IsOtherEvent)

LastN(s, n) == SubSeq(s, IF Len(s) - n + 1 > 1 THEN Len(s) - n + 1 ELSE 1, Len(s))

\* trimmed, lower-cased notes, risks and next focus of one reflection
ItemsOf(e) ==
  {Norm(e.notes[j]) : j \in 1..Len(e.notes)} \cup
  {Norm(e.risks[j]) : j \in 1..Len(e.risks)} \cup
  (IF e.next_focus # None THEN {Norm(e.next_focus)} ELSE {})

\* the items of the last w reflections of h
RecentItems(h, w) ==
  LET r == LastN(Reflections(h), w)
  IN UNION {ItemsOf(r[i]) : i \in 1..Len(r)}

AlreadyAppeared(e, h, w) == ItemsOf(e) \subseteq RecentItems(h, w)

IsAppendReflectionCall == last_call' # last_call /\ last_call'.op = "append_reflection"

\* C21: appending a reflection whose every note, risk and next focus, trimmed
\* and lower-cased, already appeared in the last dedup_window reflections
\* leaves the History as it was.
C21_DedupNoOp ==
  [][(IsAppendReflectionCall
      /\ AlreadyAppeared(last_call'.event, history, cfg.reflection_dedup_window))
     => history' = history]_vars

C21_Witness ==
  /\ pc = "refl"
  /\ cfg.reflection_dedup_window = 1
  /\ last_call # NoneRec
  /\ last_call.op = "append_reflection"
  /\ last_call.event = ReflectionEvent(<<" X">>, None, <<>>)
  /\ Reflections(history) = <<ReflectionEvent(<<"x">>, None, <<>>)>>
  /\ Len(history) = 2

\* the event brings something the window (the whole History when the window
\* is 0) has not seen
BringsNewItem(e, h, w) ==
  \E item \in ItemsOf(e) :
    item # "" /\ item \notin RecentItems(h, IF w > 0 THEN w ELSE Len(h))

\* C22: with max_reflections = m > 0 the History holds at most m reflections
\* after every append_reflection call, and an appended reflection leaves the m
\* most recently appended ones, in their order; other events stay.
C22_CapIsFifo ==
  [][IsAppendReflectionCall =>
       LET old == Reflections(history)
           new == Reflections(history')
           m == cfg.max_reflections
       IN /\ Len(new) <= m
          /\ OtherEvents(history') = OtherEvents(history)
          /\ BringsNewItem(last_call'.event, history, cfg.reflection_dedup_window)
             => /\ Len(new) >= 1
                /\ Range(new[Len(new)].notes) \subseteq Range(last_call'.event.notes)
                /\ new = LastN(Append(old, new[Len(new)]), m)]_vars

C22_Witness ==
  /\ pc = "refl"
  /\ cfg.max_reflections = 2
  /\ last_call # NoneRec
  /\ last_call.n = 4
  /\ last_call.event = ReflectionEvent(<<"z">>, None, <<>>)
  /\ history = <<ReflectionEvent(<<"y">>, None, <<>>), DriverNoteEvent(<<"note">>),
                 ReflectionEvent(<<"z">>, None, <<>>)>>

\* ------------------------------------------------------------------
\* Trace.get_run_history: the tool_call/observation list rebuilt from the file

\* what one entry of the file contributes
replayed(evt) ==
  IF evt.kind = "llm_action"
  THEN LET obj == evt.payload.action
       IN IF obj.type = "tool_call"
          THEN <<[kind |-> "tool_call", name |-> obj.name, args |-> obj.args]>>
          ELSE <<>>
  ELSE IF evt.kind = "tool_result"
  THEN <<[kind |-> "observation", tool |-> evt.payload.tool, obs |-> evt.payload.obs]>>
  ELSE IF evt.kind = "tests"
  THEN <<[kind |-> "observation", tool |-> "driver.run_tests", obs |-> evt.payload]>>
  ELSE <<>>

RECURSIVE get_run_history_any_run(_, _)
\* a replay that reads every line of the file
get_run_history_any_run(file, run_id) ==
  IF file = <<>> THEN <<>>
  ELSE replayed(Head(file)) \o get_run_history_any_run(Tail(file), run_id)

RECURSIVE get_run_history(_, _)
get_run_history(file, run_id) ==
  IF file = <<>> THEN <<>>
  ELSE (IF Head(file).run_id = run_id THEN replayed(Head(file)) ELSE <<>>)
       \o get_run_history(Tail(file), run_id)

\* lines another run can have appended to the same file
ForeignEntries ==
  {[kind |-> "llm_action", run_id |-> "r0",
    payload |-> [t |-> 0, action |-> to_dict(ToolCallAction("grep", Args(<<"pattern">>, None)))]],
   [kind |-> "tool_result", run_id |-> "r0",
    payload |-> [t |-> 0, tool |-> "grep", args |-> Args(<<"pattern">>, None),
                 obs |-> Observation_from_tool_result(
                           ToolResult(TRUE, <<"grep", "ok">>, [rel_path |-> None]))]],
   [kind |-> "tests", run_id |-> "r0", payload |-> [ok |-> FALSE, output |-> <<"failed">>]]}

\* the file with a foreign line before every line of this run and one at the end
Interleave(tr, e) ==
  [i \in 1..(2 * Len(tr) + 1) |-> IF i % 2 = 1 THEN e ELSE tr[i \div 2]]

TraceFiles(tr) == {tr} \cup {Interleave(tr, e) : e \in ForeignEntries}

IsCallOrObservation(e) == e.kind \in {"tool_call", "observation"}

\* kind and tool name of the tool_call and observation items of a list
CallsAndObservations(s) ==
  LET items == SelectSeq(s, IsCallOrObservation)
  IN [i \in 1..Len(items) |->
        <<items[i].kind, IF items[i].kind = "tool_call" THEN items[i].name ELSE items[i].tool>>]

\* C23: whenever the driver is not between logging a tool call and appending
\* it, get_run_history(run_id) yields the same tool_call/observation sequence,
\* same tool names in the same order, as the History of the run, whatever
\* lines of other runs the file holds.
C23_ReplayFidelity ==
  pc # "dispatch"
    => \A file \in TraceFiles(trace) :
         CallsAndObservations(get_run_history(file, RunId)) = CallsAndObservations(history)

C23_Witness ==
  /\ pc = "reflect"
  /\ CallsAndObservations(history) =
       <<<<"tool_call", "write_file">>, <<"observation", "write_file">>,
         <<"observation", "driver.run_tests">>>>
  /\ Len(get_run_history(Interleave(trace, CHOOSE e \in ForeignEntries : e.kind = "tests"),
                         RunId)) = 3

\* ------------------------------------------------------------------
\* C24: for every object x that parse_action accepts, parse_action(x).to_dict()
\* is accepted again and parses to an equal typed action.
C24_RoundTrip ==
  pc = "reparsed" => (IsTypedAction(result) /\ result = parsed_action)

C24_Witness ==
  /\ pc = "reparsed"
  /\ parsed_action.type = "tool_call"
  /\ parsed_action.thought = "in"
  /\ last_call.obj = Object([type |-> JStr("read_file"), name |-> Absent,
                             args |-> JDict([rel_path |-> JStr("a"), thought |-> JStr("in")]),
                             thought |-> Absent])
  /\ result = parsed_action

\* {type: T, args: A}, with or without a thought, T a model-callable tool
IsShorthand(x) ==
  /\ IsDict(x)
  /\ {"type", "args"} \subseteq DOMAIN x.dict
  /\ DOMAIN x.dict \subseteq {"type", "args", "thought"}
  /\ IsStr(x.dict["type"])
  /\ x.dict["type"].str \in TOOL_NAMES

\* the same object written out in full
WrittenOut(x) ==
  JDict([k \in DOMAIN x.dict \cup {"name"} |->
           IF k = "type" THEN JStr("tool_call")
           ELSE IF k = "name" THEN x.dict["type"]
           ELSE x.dict[k]])

\* a tool name in type next to a name field
IsNamedToolType(x) ==
  /\ IsDict(x)
  /\ {"type", "name"} \subseteq DOMAIN x.dict
  /\ IsStr(x.dict["type"])
  /\ x.dict["type"].str \in TOOL_NAMES

\* C25: {type: T, args: A} without a name, T a model-callable tool, parses to
\* the same typed action or the same error as {type: "tool_call", name: T,
\* args: A}; an object that carries a name is not coerced, so a tool name in
\* its type is an unknown action type.
C25_Coercion ==
  pc \in {"parsed", "reparsed"} =>
    /\ IsShorthand(last_call.obj) => parsed_action = parse_action(WrittenOut(last_call.obj))
    /\ IsNamedToolType(last_call.obj) => parsed_action = ActionParseError("Unknown action type")

C25_Witness ==
  /\ pc = "parsed"
  /\ last_call.obj = JDict([type |-> JStr("list_files"), args |-> JDict([rel_path |-> JStr("a")])])
  /\ parsed_action = [ToolCallAction("list_files", [rel_path |-> JStr("a")])
                        EXCEPT !.thought = None]

\* C26: a ToolCallAction returned by parse_action has no thought key in its args.
C26_NoThoughtInArgs ==
  (pc \in {"parsed", "reparsed"} /\ IsTypedAction(parsed_action)
   /\ parsed_action.type = "tool_call")
    => "thought" \notin DOMAIN parsed_action.args

\* ------------------------------------------------------------------
\* the first action of the run was a Final (History held no observation
\* then) and the driver is through with its Final branch
FirstFinalHandled ==
  /\ Len(responses) = 1
  /\ IsFinalTag(responses[1])
  /\ pc \notin {"request", "final"}

\* C27: a Final that arrives while History holds no observation meets the
\* evidence gate before the on_final test step: the forced list_files call
\* replaces it, the test command is not executed in that turn and no
\* driver.run_tests observation stands in as the evidence.
C27_GateBeforeFinalTests ==
  FirstFinalHandled
    => /\ parsed_action = ForcedListFiles
       /\ CountKind(trace, "tests") = 0
       /\ NumTestObservations = 0

\* ------------------------------------------------------------------
LoopNote == <<"Loop detected: change approach, inspect different evidence, then replan.">>

IsLoopNoteEntry(e) == e.kind = "driver_note" /\ e.payload.note = LoopNote

\* entry e belongs to turn k
InTurn(e, k) == "t" \in DOMAIN e.payload /\ e.payload.t = k

\* run_reflection left its mark: a request to reflect, a reflection, or the
\* note that the adapter cannot reflect
IsReflectionMark(e) ==
  \/ e.kind \in {"reflection_request", "reflection"}
  \/ /\ e.kind = "driver_note"
     /\ e.payload.note = <<"Reflection skipped: LLM adapter does not implement reflect().">>

\* C28: every turn that starts with detect_loop(loop_tripwire) true gets the
\* loop note in History and trace, then requests the action, and runs a
\* reflection before the turn is over, whatever the action and its outcome.
C28_LoopTurnReflects ==
  \A i \in 1..Len(trace) :
    (IsLoopNoteEntry(trace[i]) /\ (Terminated \/ t > trace[i].payload.t))
      => /\ \E m \in 1..Len(history) : history[m] = DriverNoteEvent(LoopNote)
         /\ \E j \in (i + 1)..Len(trace) :
              trace[j].kind = "llm_request" /\ InTurn(trace[j], trace[i].payload.t)
         /\ \E j \in (i + 1)..Len(trace) :
              IsReflectionMark(trace[j]) /\ InTurn(trace[j], trace[i].payload.t)

\* ------------------------------------------------------------------
IsTouchedNote(e) == e.kind = "driver_note" /\ e.note[1] = "touched"

IsTouchedEntry(e) == e.kind = "driver_note" /\ e.payload.note[1] = "touched"

TouchedNotes(h) == SelectSeq(h, IsTouchedNote)

TouchedEntries(tr) == SelectSeq(tr, IsTouchedEntry)

IsWriteObservation(e) == e.kind = "observation" /\ e.tool = "write_file"

IsSuccessfulWrite(e) ==
  /\ e.kind = "observation"
  /\ e.tool = "write_file"
  /\ e.observation.ok
  /\ e.observation.meta.rel_path # None

RECURSIVE FirstOccurrences(_)
\* the distinct elements of a sequence, each at its first position
FirstOccurrences(s) ==
  IF s = <<>> THEN <<>>
  ELSE LET front == FirstOccurrences(SubSeq(s, 1, Len(s) - 1))
       IN IF s[Len(s)] \in Range(front) THEN front ELSE Append(front, s[Len(s)])

SuccessfulWritePaths(h) ==
  LET w == SelectSeq(h, IsSuccessfulWrite)
  IN FirstOccurrences([i \in 1..Len(w) |-> w[i].observation.meta.rel_path])

\* C30: touched_files() is the list of the distinct meta.rel_path of the
\* write_file observations with ok = true, in order of first occurrence;
\* paths of failed writes and of other tools' observations are not in it.
C30_TouchedFiles ==
  pc = "hist" => touched_files(history) = SuccessfulWritePaths(history)

\* ------------------------------------------------------------------
\* the events of h at the positions in keep, in their order
Pick(h, keep) ==
  LET idx(j) == CHOOSE i \in keep : Cardinality({m \in keep : m < i}) = j - 1
  IN [j \in 1..Cardinality(keep) |-> h[idx(j)]]

\* h without its k oldest reflections
WithoutOldest(h, k) ==
  Pick(h, {i \in 1..Len(h) :
             IsOtherEvent(h[i]) \/ Len(Reflections(SubSeq(h, 1, i))) > k})

IsPrefix(s, u) == Len(s) <= Len(u) /\ SubSeq(u, 1, Len(s)) = s

IsAppendCall == last_call' # last_call

\* C31: every append_* call other than append_reflection appends its event
\* to the unchanged sequence; append_reflection leaves the sequence as it was
\* or appends one reflection, after which only some of the oldest reflections
\* are gone: the non-reflection events are the same, in the same places
\* relative to the surviving events, and when nothing is evicted the old
\* sequence is a prefix of the new one.
C31_AppendOnly ==
  [][IsAppendCall =>
       IF last_call'.op = "append_reflection"
       THEN /\ OtherEvents(history') = OtherEvents(history)
            /\ \/ history' = history
               \/ \E k \in 0..Len(Reflections(history)) :
                    /\ Len(history') = Len(history) - k + 1
                    /\ IsReflectionEvent(history'[Len(history')])
                    /\ SubSeq(history', 1, Len(history') - 1) = WithoutOldest(history, k)
                    /\ k = 0 => IsPrefix(history, history')
       ELSE history' = Append(history, last_call'.event)]_vars

C31_Witness ==
  /\ pc = "refl"
  /\ cfg.max_reflections = 1
  /\ last_call # NoneRec
  /\ last_call.op = "append_reflection"
  /\ last_call.n = 4
  /\ history = <<DriverNoteEvent(<<"note">>),
                 ToolCallEvent("grep", Args(<<"pattern">>, None)),
                 ReflectionEvent(<<"y">>, None, <<>>)>>

\* ------------------------------------------------------------------
\* the items of the window the incoming reflection is compared with: the
\* last w reflections, all of them if w <= 0
WindowItems(h, w) == RecentItems(h, IF w > 0 THEN w ELSE Len(h))

\* the items of s whose trimmed, lower-cased form is not in set
Surviving(s, set) ==
  LET IsNew(x) == Norm(x) \notin set
  IN SelectSeq(s, IsNew)

\* C32: when append_reflection appends, the new ReflectionEvent holds the
\* incoming notes, risks and next focus whose normal form is not among the
\* items of the window, all of them and no others; the original notes are
\* used in full only if no note survives.
C32_DedupedContent ==
  [][(IsAppendCall /\ last_call'.op = "append_reflection" /\ history' # history) =>
       LET event == last_call'.event
           set == WindowItems(history, cfg.reflection_dedup_window)
           notes == Surviving(event.notes, set)
           new == history'[Len(history')]
       IN /\ new.notes = (IF notes # <<>> THEN notes ELSE event.notes)
          /\ new.risks = Surviving(event.risks, set)
          /\ new.next_focus = (IF event.next_focus # None /\ Norm(event.next_focus) \notin set
                               THEN event.next_focus ELSE None)]_vars

\* ------------------------------------------------------------------
IsDriverNote(e) == e.kind = "driver_note"

DriverNotes(h) ==
  LET ns == SelectSeq(h, IsDriverNote) IN [i \in 1..Len(ns) |-> ns[i].note]

MostRecentTest(h) ==
  LET ts == SelectSeq(h, IsTestObservation)
  IN IF ts = <<>> THEN NoneRec
     ELSE [ok |-> ts[Len(ts)].observation.ok, output |-> ts[Len(ts)].observation.output]

\* C33: on every History built through the append methods, the empty one or
\* not, summarize_history returns a RunSummary: its notes are the driver
\* notes in order, its files_touched is touched_files() and its last_test is
\* the most recent driver.run_tests observation.
C33_SummaryIsProjection ==
  pc = "hist" =>
    LET summary == summarize_history(history)
    IN /\ ~summary.raised
       /\ summary.notes = DriverNotes(history)
       /\ summary.files_touched = touched_files(history)
       /\ summary.last_test = MostRecentTest(history)

\* ------------------------------------------------------------------
\* History.from_trace_events: what one trace entry adds to the rebuilt History
rebuilt(e) ==
  IF e.kind = "tool_result"
  THEN LET obs == e.payload.obs
       IN <<ObservationEvent(e.payload.tool,
                             [ok |-> obs.ok, output |-> obs.output, meta |-> obs.meta])>>
  ELSE IF e.kind = "llm_action"
  THEN \* payload.get("obj"): the key the driver's LLMActionPayload does not have
       IF "obj" \in DOMAIN e.payload
       THEN (IF e.payload.obj.type = "tool_call"
             THEN <<ToolCallEvent(e.payload.obj.name, e.payload.obj.args)>>
             ELSE <<>>)
       ELSE <<>>
  ELSE IF e.kind = "tests"
  THEN <<ObservationEvent("driver.run_tests",
                          [ok |-> e.payload.ok, output |-> e.payload.output,
                           meta |-> NoneRec])>>
  ELSE IF e.kind = "driver_note"
  THEN <<DriverNoteEvent(e.payload.note)>>
  ELSE <<>>

RECURSIVE from_trace_events(_)
from_trace_events(events) ==
  IF events = <<>> THEN <<>>
  ELSE rebuilt(Head(events)) \o from_trace_events(Tail(events))

IsRebuildable(e) == e.kind \in {"tool_call", "observation", "driver_note"}

\* tool calls with name and args, observations with tool and ok, driver notes
Skeleton(h) ==
  LET es == SelectSeq(h, IsRebuildable)
  IN [i \in 1..Len(es) |->
        IF es[i].kind = "tool_call" THEN <<"tool_call", es[i].name, es[i].args>>
        ELSE IF es[i].kind = "observation"
        THEN <<"observation", es[i].tool, es[i].observation.ok>>
        ELSE <<"driver_note", es[i].note>>]

\* C34: whenever the driver is not between logging a tool call and appending
\* it, from_trace_events on the trace entries of the run rebuilds a History
\* with the same tool calls (name, args), observations (tool, ok) and driver
\* notes, in the same order, as the History of the run.
C34_HistoryFromTrace ==
  pc # "dispatch" => Skeleton(from_trace_events(trace)) = Skeleton(history)

\* ------------------------------------------------------------------
FirstIndexOf(tr, kind) ==
  LET is == {i \in 1..Len(tr) : tr[i].kind = kind}
  IN IF is = {} THEN Len(tr) + 1 ELSE CHOOSE i \in is : \A j \in is : i <= j

\* C35: the trace of a run that returned a payload, whatever max_iters was,
\* holds exactly one run_start, before the first llm_request, and exactly one
\* run_end, its last entry; in a run that ended in DONE the final entry comes
\* right before run_end.
C35_TraceLifecycle ==
  Returned
    => /\ CountKind(trace, "run_start") = 1
       /\ FirstIndexOf(trace, "run_start") < FirstIndexOf(trace, "llm_request")
       /\ CountKind(trace, "run_end") = 1
       /\ trace[Len(trace)].kind = "run_end"
       /\ pc = "DONE" => trace[Len(trace) - 1].kind = "final"

\* ------------------------------------------------------------------
IsDriverNoteEntry(e) == e.kind = "driver_note"

TraceNotes(tr) ==
  LET ns == SelectSeq(tr, IsDriverNoteEntry) IN [i \in 1..Len(ns) |-> ns[i].payload.note]

\* C36: at every point of a run the notes of the DriverNoteEvents in History
\* are, in order, the notes of the driver_note entries of the trace.
C36_NotesPaired == DriverNotes(history) = TraceNotes(trace)

C36_Witness ==
  /\ pc = "loop"
  /\ t = 1
  /\ DriverNotes(history) =
       <<TRAILING_NOTE, <<"touched", "a.py">>,
         <<"Reflection skipped: LLM adapter does not implement reflect().">>>>
  /\ TraceNotes(trace) = DriverNotes(history)

\* C37: runs share no mutable state. In run_suite_with_rollouts with
\* max_workers > 1, under every interleaving each rollout builds its LLM
\* with the seed of its own work item, and once the call has returned the
\* runner's llm_factory is the one it had before the call.
C37_RunsShareNoState ==
  (pc \in {"collect", "returned"} /\ cfg.mode = "rollouts" /\ cfg.max_workers > 1) =>
    /\ \A i \in Items :
         runner.items[i].llm # NoneRec =>
           runner.items[i].llm = built_by(SeedFactory(seed_of(cfg, i)))
    /\ pc = "returned" => runner.llm_factory = DefaultFactory

\* the results in self.results that work item i's run_task call made
Appended(i) == Len(SelectSeq(runner.results, LAMBDA r : r.run_id = i))

\* run_task has been left, by return or by exception
CallOver(i) == runner.items[i].pc \in {"restore", "done"}

BeforeAppend(i) ==
  runner.items[i].pc \in {"new", "queued", "swap", "build", "run", "acquire", "append"}

InOrderOfTasks(results) ==
  /\ Len(results) = cfg.tasks
  /\ \A k \in 1..Len(results) : results[k].task_id = k - 1

\* C38: result aggregation is thread-safe. Every run_task call appends
\* exactly one TaskResult to the shared results list, holding the results
\* lock, so that under any interleaving no result is lost or duplicated;
\* run_suite_parallel returns exactly one TaskResult per task, in the
\* suite's task order whatever the completion order.
C38_EveryCallAppendsOnce ==
  /\ pc = "collect" =>
       \A i \in Items :
         /\ CallOver(i) => Appended(i) = 1
         /\ runner.items[i].pc \in {"append", "release"} => runner.lock = i
  /\ (pc = "returned" /\ cfg.mode = "parallel") => InOrderOfTasks(runner.returned.results)

\* C38, amended: every run_task call that returns has appended exactly one
\* TaskResult, under the lock, and a call that raises has appended none; no
\* other entry of the list is lost; run_suite_parallel returns one
\* TaskResult per task in task order, the raising calls' included.
C38_ReturningCallsAppendOnce ==
  /\ pc = "collect" =>
       /\ \A i \in Items :
            /\ (CallOver(i) /\ ~runner.items[i].raised) => Appended(i) = 1
            /\ (BeforeAppend(i) \/ runner.items[i].raised) => Appended(i) = 0
            /\ runner.items[i].pc \in {"append", "release"} => runner.lock = i
       /\ Len(runner.results) =
            Cardinality({i \in Items : Appended(i) = 1})
              + (IF cfg.mode = "rollouts" THEN 1 ELSE 0)
       /\ cfg.mode = "rollouts" => runner.results[1] = TaskResult(-1, 0)
  /\ (pc = "returned" /\ cfg.mode = "parallel") =>
       /\ InOrderOfTasks(runner.returned.results)
       /\ runner.results = runner.returned.results
       /\ \A k \in 1..cfg.tasks :
            runner.returned.results[k].run_id = (IF (k - 1) \in cfg.unresolvable THEN 0 ELSE k)

\* two tasks of a parallel suite finished in the opposite order, on two
\* threads, and the call has returned
C38_Witness ==
  /\ pc = "returned"
  /\ cfg.mode = "parallel"
  /\ cfg.tasks = 2
  /\ cfg.max_workers = 2
  /\ cfg.unresolvable = {}
  /\ runner.collected = <<2, 1>>

IsChatCall(op) == pc = "chat" /\ last_call' # last_call /\ last_call'.op = op

\* C39: ChatCompletionsLLM keeps tool_call/tool adjacency. A driver note
\* added while the last message is an assistant tool_calls message is
\* deferred; when next_action is then called with the tool result, the
\* message list sent has the assistant tool_calls message, right after it
\* its role=tool message, and only then the deferred notes, each once and in
\* the order they were added.
C39_ToolCallAdjacency ==
  [][/\ (/\ IsChatCall("add_driver_note")
         /\ last_call'.arg.note # ""
         /\ chat.messages # <<>>
         /\ awaits_tool_result(chat.messages)) =>
          /\ chat'.messages = chat.messages
          /\ chat'.pending_driver_notes =
               Append(chat.pending_driver_notes, last_call'.arg.note)
     /\ (/\ IsChatCall("next_action")
         /\ last_call'.arg.tool_result # None
         /\ chat.messages # <<>>
         /\ awaits_tool_result(chat.messages)) =>
          LET n == Len(chat.messages)
              deferred == chat.pending_driver_notes
          IN /\ Len(chat'.sent) = n + 1 + Len(deferred)
             /\ SubSeq(chat'.sent, 1, n) = chat.messages
             /\ chat'.sent[n + 1] = ToolMessage(chat.messages[n].tool_calls[1].id,
                                                last_call'.arg.tool_result)
             /\ \A k \in 1..Len(deferred) :
                  chat'.sent[n + 1 + k] = DriverNoteMessage(deferred[k])
             /\ chat'.pending_driver_notes = <<>>
     /\ (pc = "chat" /\ chat'.pending_driver_notes # <<>>) =>
          awaits_tool_result(chat'.messages)
    ]_vars

\* notes "a" and "b" were deferred behind a tool call and the next request
\* has carried them after the tool message
C39_Witness ==
  /\ pc = "chat"
  /\ last_call # NoneRec
  /\ last_call.op = "next_action"
  /\ Len(chat.sent) >= 6
  /\ LET n == Len(chat.sent)
     IN /\ "tool_calls" \in DOMAIN chat.sent[n - 3]
        /\ chat.sent[n - 2].role = "tool"
        /\ chat.sent[n - 1] = DriverNoteMessage("a")
        /\ chat.sent[n] = DriverNoteMessage("b")

\* C40: for every History and every k < 1 (loop_tripwire = 0, say),
\* detect_loop(k) is false, so that a tripwire below 1 never sets off the
\* loop note and the forced reflection.
C40_NonPositiveTripwire ==
  pc = "hist" =>
    /\ \A k \in (-MaxTripwire)..0 : ~detect_loop(history, k)
    /\ cfg.loop_tripwire < 1 => ~loop_triggered

====
